---- MODULE Spec2Model ----
(***************************************************************************)
(* Model of the analytical core of the Qobuz Nonsense collector:           *)
(*   scripts/bot_score.py      score_account                               *)
(*   scripts/collect.py        detect_campaign_bursts, archive_old_posts,  *)
(*                             save_posts, load_existing, main             *)
(* Texts and usernames are sequences of one-character strings.  Scores are *)
(* kept in thousandths (0.35 is 350), which is exact for round(score, 3):  *)
(* every weight is a multiple of 0.01.  Timestamps are hours since an      *)
(* epoch, together with the UTC offset they were written with.             *)
(***************************************************************************)
EXTENDS Integers, Sequences, FiniteSets, TLC

(***************************************************************************)
(* difflib.SequenceMatcher(None, a, b).ratio(), as called by score_account *)
(* Indices are Python's: 0-based, ranges [lo, hi).                         *)
(***************************************************************************)

\* the elements of a list
Range(seq) == {seq[k] : k \in 1..Len(seq)}

\* str[:n]
Prefix(s, n) == IF Len(s) <= n THEN s ELSE SubSeq(s, 1, n)

\* number of positions of b holding element e
Occurrences(b, e) == Cardinality({j \in 1..Len(b) : b[j] = e})

\* __chain_b: with autojunk, once b has 200 elements or more, every element
\* occurring more than len(b)//100 + 1 times is "popular" and leaves b2j
Popular(b) ==
    IF Len(b) >= 200
    THEN {e \in {b[j] : j \in 1..Len(b)} : Occurrences(b, e) > (Len(b) \div 100) + 1}
    ELSE {}

\* j2len[j] while scanning row i: the length of the run of equal, non-popular
\* elements that ends at a[i], b[j] and stays inside [alo, ..) x [blo, ..)
RECURSIVE RunLen(_, _, _, _, _, _, _)
RunLen(a, b, pop, alo, blo, i, j) ==
    IF i < alo \/ j < blo THEN 0
    ELSE IF a[i + 1] = b[j + 1] /\ b[j + 1] \notin pop
         THEN 1 + RunLen(a, b, pop, alo, blo, i - 1, j - 1)
         ELSE 0

\* the two "extend the best by non-junk elements on each end" loops
RECURSIVE ExtendBack(_, _, _, _, _, _)
ExtendBack(a, b, alo, blo, i, j) ==
    IF i > alo /\ j > blo /\ a[i] = b[j]
    THEN 1 + ExtendBack(a, b, alo, blo, i - 1, j - 1)
    ELSE 0

RECURSIVE ExtendFwd(_, _, _, _, _, _)
ExtendFwd(a, b, ahi, bhi, i, j) ==
    IF i < ahi /\ j < bhi /\ a[i + 1] = b[j + 1]
    THEN 1 + ExtendFwd(a, b, ahi, bhi, i + 1, j + 1)
    ELSE 0

\* find_longest_match(alo, ahi, blo, bhi): the longest block, of those the one
\* starting earliest in a, of those the one starting earliest in b
find_longest_match(a, b, pop, alo, ahi, blo, bhi) ==
    LET ends == {p \in (alo..(ahi - 1)) \X (blo..(bhi - 1)) :
                    a[p[1] + 1] = b[p[2] + 1] /\ b[p[2] + 1] \notin pop}
        len(p) == RunLen(a, b, pop, alo, blo, p[1], p[2])
        runs == {<<p[1], p[2], len(p)>> : p \in ends}
        bestsize == IF runs = {} THEN 0
                    ELSE CHOOSE k \in {r[3] : r \in runs} : \A r \in runs : r[3] <= k
        longest == {r \in runs : r[3] = bestsize}
        first == IF runs = {} THEN <<alo, blo, 0>>
                 ELSE CHOOSE r \in longest :
                        \A q \in longest :
                            r[1] < q[1] \/ (r[1] = q[1] /\ r[2] <= q[2])
        besti == IF runs = {} THEN alo ELSE first[1] - bestsize + 1
        bestj == IF runs = {} THEN blo ELSE first[2] - bestsize + 1
        back == ExtendBack(a, b, alo, blo, besti, bestj)
        fwd == ExtendFwd(a, b, ahi, bhi, besti + bestsize, bestj + bestsize)
    IN  [i |-> besti - back, j |-> bestj - back, size |-> bestsize + back + fwd]

\* get_matching_blocks summed: the total size of the blocks found by matching
\* the longest block and then, recursively, the pieces left and right of it
RECURSIVE matches(_, _, _, _, _, _, _)
matches(a, b, pop, alo, ahi, blo, bhi) ==
    LET m == find_longest_match(a, b, pop, alo, ahi, blo, bhi)
    IN  IF m.size = 0 THEN 0
        ELSE m.size
             + (IF alo < m.i /\ blo < m.j
                THEN matches(a, b, pop, alo, m.i, blo, m.j) ELSE 0)
             + (IF m.i + m.size < ahi /\ m.j + m.size < bhi
                THEN matches(a, b, pop, m.i + m.size, ahi, m.j + m.size, bhi) ELSE 0)

\* the numerator M of ratio() = 2.0 * M / (len(a) + len(b))
MatchCount(a, b) == matches(a, b, Popular(b), 0, Len(a), 0, Len(b))


(***************************************************************************)
(* Items.  An optional field (author_age_days, author_karma) is None or    *)
(* Some(n).  A date is absent, an unparseable string, or an instant t (in  *)
(* hours since the epoch, UTC) written with a UTC offset off (in hours).   *)
(***************************************************************************)
None == <<>>
Some(n) == <<n>>

NoDate == [kind |-> "none", t |-> 0, off |-> 0]
BadDate == [kind |-> "bad", t |-> 0, off |-> 0]
DateAt(t, off) == [kind |-> "ok", t |-> t, off |-> off]

\* the post dict as the collectors build it, before _finalize_post and scoring
Item(id, source, title, text, author, age, karma, date) ==
    [id |-> id, source |-> source, title |-> title, text |-> text,
     author |-> author, author_age_days |-> age, author_karma |-> karma,
     date |-> date, narratives |-> <<>>, bot_score |-> 0,
     bot_signals |-> <<>>, campaign_burst |-> FALSE]

\* concrete titles, bodies and usernames the items of the model carry
\* "i switched to qobuz because it pays artists better"  (50 characters)
BodyCampaign ==
    <<"i", " ", "s", "w", "i", "t", "c", "h", "e", "d", " ", "t", "o", " ", "q", "o", "b", "u", "z", " ", "b", "e", "c", "a", "u", "s", "e", " ", "i", "t", " ", "p", "a", "y", "s", " ", "a", "r", "t", "i", "s", "t", "s", " ", "b", "e", "t", "t", "e", "r">>

\* "i switched to qobuz because it pays artists bette"  (the same less its last character: 49 characters)
BodyCampaign49 ==
    <<"i", " ", "s", "w", "i", "t", "c", "h", "e", "d", " ", "t", "o", " ", "q", "o", "b", "u", "z", " ", "b", "e", "c", "a", "u", "s", "e", " ", "i", "t", " ", "p", "a", "y", "s", " ", "a", "r", "t", "i", "s", "t", "s", " ", "b", "e", "t", "t", "e">>

\* "i and sound it try pays you switched is try pays is"  (51 characters)
BodyShuffled ==
    <<"i", " ", "a", "n", "d", " ", "s", "o", "u", "n", "d", " ", "i", "t", " ", "t", "r", "y", " ", "p", "a", "y", "s", " ", "y", "o", "u", " ", "s", "w", "i", "t", "c", "h", "e", "d", " ", "i", "s", " ", "t", "r", "y", " ", "p", "a", "y", "s", " ", "i", "s">>

\* "i and sound is try pays you it switched try pays is"  (the same, two words swapped)
BodyShuffledSwapped ==
    <<"i", " ", "a", "n", "d", " ", "s", "o", "u", "n", "d", " ", "i", "s", " ", "t", "r", "y", " ", "p", "a", "y", "s", " ", "y", "o", "u", " ", "i", "t", " ", "s", "w", "i", "t", "c", "h", "e", "d", " ", "t", "r", "y", " ", "p", "a", "y", "s", " ", "i", "s">>

\* "switched to qobuz because"  (25 characters)
BodySplit ==
    <<"s", "w", "i", "t", "c", "h", "e", "d", " ", "t", "o", " ", "q", "o", "b", "u", "z", " ", "b", "e", "c", "a", "u", "s", "e">>

\* "it pays artists better ok"  (25 characters)
TitleSplit ==
    <<"i", "t", " ", "p", "a", "y", "s", " ", "a", "r", "t", "i", "s", "t", "s", " ", "b", "e", "t", "t", "e", "r", " ", "o", "k">>

\* "i switched to qobuz because it pays"  (35 characters)
BodyEdge ==
    <<"i", " ", "s", "w", "i", "t", "c", "h", "e", "d", " ", "t", "o", " ", "q", "o", "b", "u", "z", " ", "b", "e", "c", "a", "u", "s", "e", " ", "i", "t", " ", "p", "a", "y", "s">>

\* "art00000000000000"  (17 characters: BodyEdge, a space and TitleEdge share exactly 39 of their 53 characters with BodyCampaign and a space)
TitleEdge ==
    <<"a", "r", "t", "0", "0", "0", "0", "0", "0", "0", "0", "0", "0", "0", "0", "0", "0">>

\* "the new album from this band is out now on every store"  (54 characters)
BodyUnrelated ==
    <<"t", "h", "e", " ", "n", "e", "w", " ", "a", "l", "b", "u", "m", " ", "f", "r", "o", "m", " ", "t", "h", "i", "s", " ", "b", "a", "n", "d", " ", "i", "s", " ", "o", "u", "t", " ", "n", "o", "w", " ", "o", "n", " ", "e", "v", "e", "r", "y", " ", "s", "t", "o", "r", "e">>

\* "musicfan"
AuthorPlain ==
    <<"m", "u", "s", "i", "c", "f", "a", "n">>

\* "JohnSmith123456"  (matches both username patterns)
AuthorBoth ==
    <<"J", "o", "h", "n", "S", "m", "i", "t", "h", "1", "2", "3", "4", "5", "6">>

\* "JohnSmith123"  (matches the first username pattern only)
AuthorCamel ==
    <<"J", "o", "h", "n", "S", "m", "i", "t", "h", "1", "2", "3">>

\* "user123456"  (matches the second username pattern only)
AuthorNumeric ==
    <<"u", "s", "e", "r", "1", "2", "3", "4", "5", "6">>

\* "user12345"  (five trailing digits: matches neither)
AuthorFiveDigits ==
    <<"u", "s", "e", "r", "1", "2", "3", "4", "5">>

(***************************************************************************)
(* bot_score.score_account                                                 *)
(***************************************************************************)
Upper == {"A", "B", "C", "D", "E", "F", "G", "H", "I", "J", "K", "L", "M",
          "N", "O", "P", "Q", "R", "S", "T", "U", "V", "W", "X", "Y", "Z"}
Lower == {"a", "b", "c", "d", "e", "f", "g", "h", "i", "j", "k", "l", "m",
          "n", "o", "p", "q", "r", "s", "t", "u", "v", "w", "x", "y", "z"}
Digit == {"0", "1", "2", "3", "4", "5", "6", "7", "8", "9"}
Whitespace == {" ", "\t", "\n", "\r"}

\* one contribution: what a block adds to score and appends to signals
Nothing == [score |-> 0, signals |-> <<>>]
Add(points, name) == [score |-> points, signals |-> <<name>>]
Both(x, y) == [score |-> x.score + y.score, signals |-> x.signals \o y.signals]

\* text = (post.get("text") or "") + " " + (post.get("title") or "")
CombinedText(post) == post.text \o <<" ">> \o post.title

\* bool(text.strip())
NotBlank(text) == \E k \in 1..Len(text) : text[k] \notin Whitespace

\* AgeSignal with the first threshold taken inclusively
AgeSignalInclusive(age_days) ==
    IF age_days = None THEN Nothing
    ELSE IF age_days[1] <= 30 THEN Add(350, "very_new_account")
    ELSE IF age_days[1] < 90 THEN Add(200, "new_account")
    ELSE Nothing

\* New account signal
AgeSignal(age_days) ==
    IF age_days = None THEN Nothing
    ELSE IF age_days[1] < 30 THEN Add(350, "very_new_account")
    ELSE IF age_days[1] < 90 THEN Add(200, "new_account")
    ELSE Nothing

\* Low karma signal
KarmaSignal(karma) ==
    IF karma = None THEN Nothing
    ELSE IF karma[1] < 10 THEN Add(250, "very_low_karma")
    ELSE IF karma[1] < 100 THEN Add(150, "low_karma")
    ELSE Nothing

\* ComboSignal with a weight of 0.15
ComboSignalHeavier(age_days, karma) ==
    IF age_days # None /\ karma # None /\ age_days[1] < 90 /\ karma[1] < 50
    THEN Add(150, "new_and_low_karma")
    ELSE Nothing

\* New account + low karma combo amplifier
ComboSignal(age_days, karma) ==
    IF age_days # None /\ karma # None /\ age_days[1] < 90 /\ karma[1] < 50
    THEN Add(100, "new_and_low_karma")
    ELSE Nothing

\* IdentitySignals without the test of the source
IdentitySignalsAnySource(post) ==
    Both(Both(AgeSignal(post.author_age_days), KarmaSignal(post.author_karma)),
         ComboSignal(post.author_age_days, post.author_karma))

\* Only apply Reddit-specific signals to Reddit posts
IdentitySignals(post) ==
    IF post.source = "reddit"
    THEN Both(Both(AgeSignal(post.author_age_days), KarmaSignal(post.author_karma)),
              ComboSignal(post.author_age_days, post.author_karma))
    ELSE Nothing

\* dt.hour of datetime.fromisoformat(date_str): the hour as written, that is
\* the hour of the instant shifted by the offset it was written with
HourOf(date) == (date.t + date.off) % 24

\* OddHourSignal with the points added when the date does not parse
OddHourSignalOnError(date) ==
    IF date.kind = "bad" THEN Add(80, "odd_hour_post")
    ELSE IF date.kind = "ok" /\ 2 <= HourOf(date) /\ HourOf(date) <= 6
    THEN Add(80, "odd_hour_post")
    ELSE Nothing

\* Odd posting hour; a missing date is skipped, a bad one raises and is passed
OddHourSignal(date) ==
    IF date.kind = "ok" /\ 2 <= HourOf(date) /\ HourOf(date) <= 6
    THEN Add(80, "odd_hour_post")
    ELSE Nothing

\* RatioExceeds taking the larger of the ratios computed from either side
RatioExceedsEitherWay(text, other_text) ==
    LET a == Prefix(text, 300)
        b == Prefix(other_text, 300)
        T == Len(a) + Len(b)
    IN  IF T = 0 THEN TRUE
        ELSE 8 * MatchCount(a, b) > 3 * T \/ 8 * MatchCount(b, a) > 3 * T

\* SequenceMatcher(None, text[:300], other_text[:300]).ratio() > 0.75, where
\* ratio() is 2.0 * M / T, and 1.0 when T = 0
RatioExceeds(text, other_text) ==
    LET a == Prefix(text, 300)
        b == Prefix(other_text, 300)
        T == Len(a) + Len(b)
    IN  IF T = 0 THEN TRUE ELSE 8 * MatchCount(a, b) > 3 * T

\* The combined texts the items of the model carry, and RatioExceeds tabulated
\* over them once: Similar(a, b) is RatioExceeds(a, b) for every a and b
KnownTexts ==
    {x[1] \o <<" ">> \o x[2] :
        x \in {<<BodyCampaign, <<>> >>, <<BodyCampaign49, <<>> >>,
               <<BodySplit, TitleSplit>>, <<BodyEdge, TitleEdge>>,
               <<BodyUnrelated, <<>> >>, <<<<>>, <<>> >>,
               <<BodyShuffled, <<>> >>, <<BodyShuffledSwapped, <<>> >>}}

SimilarTo == [a \in KnownTexts |-> {b \in KnownTexts : RatioExceeds(a, b)}]

Similar(a, b) ==
    IF a \in KnownTexts /\ b \in KnownTexts THEN b \in SimilarTo[a]
    ELSE RatioExceeds(a, b)

\* CountsAsSimilar counting only the entries that carry a score already
CountsAsSimilarIfScored(post, other) ==
    /\ other.id # post.id
    /\ other.bot_score > 0
    /\ NotBlank(CombinedText(other))
    /\ Similar(CombinedText(post), CombinedText(other))

\* the body of the loop over all_posts: does entry k add one to similar_count
CountsAsSimilar(post, other) ==
    /\ other.id # post.id
    /\ NotBlank(CombinedText(other))
    /\ Similar(CombinedText(post), CombinedText(other))

\* the loop with `break` in place of `continue` at the post's own entry
RECURSIVE SimilarLoopUntilSelf(_, _, _, _)
SimilarLoopUntilSelf(post, all_posts, k, count) ==
    IF k > Len(all_posts) \/ all_posts[k].id = post.id THEN count
    ELSE SimilarLoopUntilSelf(post, all_posts, k + 1,
                              IF CountsAsSimilar(post, all_posts[k])
                              THEN count + 1 ELSE count)

similar_countUntilSelf(post, all_posts) == SimilarLoopUntilSelf(post, all_posts, 1, 0)

\* for other in all_posts, from entry k on, with similar_count = count so far
RECURSIVE SimilarLoop(_, _, _, _)
SimilarLoop(post, all_posts, k, count) ==
    IF k > Len(all_posts) THEN count
    ELSE SimilarLoop(post, all_posts, k + 1,
                     IF CountsAsSimilar(post, all_posts[k])
                     THEN count + 1 ELSE count)

\* similar_count once the loop is over
similar_count(post, all_posts) == SimilarLoop(post, all_posts, 1, 0)

\* SimilarityEvaluated with the length test taken inclusively
SimilarityEvaluatedInclusive(post) ==
    NotBlank(CombinedText(post)) /\ Len(CombinedText(post)) >= 50

\* if text.strip() and len(text) > 50
SimilarityEvaluated(post) ==
    NotBlank(CombinedText(post)) /\ Len(CombinedText(post)) > 50

\* SimilarityTier with the upper tier reached one item early
SimilarityTierEarly(count) ==
    IF count >= 2 THEN Add(350, "copy_paste_campaign")
    ELSE IF count >= 1 THEN Add(150, "similar_to_other_posts")
    ELSE Nothing

\* SimilarityTier with the lower tier weighing 0.25
SimilarityTierHeavier(count) ==
    IF count >= 3 THEN Add(350, "copy_paste_campaign")
    ELSE IF count >= 1 THEN Add(250, "similar_to_other_posts")
    ELSE Nothing

\* if similar_count >= 3: ... elif similar_count >= 1: ...
SimilarityTier(count) ==
    IF count >= 3 THEN Add(350, "copy_paste_campaign")
    ELSE IF count >= 1 THEN Add(150, "similar_to_other_posts")
    ELSE Nothing

\* Suspiciously high text similarity to other posts
SimilaritySignal(post, all_posts) ==
    IF SimilarityEvaluated(post)
    THEN SimilarityTier(similar_count(post, all_posts))
    ELSE Nothing

\* re.match(r'^[A-Z][a-z]+[A-Z][a-z]+\d{3,}$', author); $ also matches just
\* before a newline that ends the string
MatchesCamelDigits(author) ==
    LET s == IF Len(author) > 0 /\ author[Len(author)] = "\n"
             THEN SubSeq(author, 1, Len(author) - 1) ELSE author
        n == Len(s)
    IN  \E i \in 3..n : \E k \in 5..n :
            /\ s[1] \in Upper
            /\ \A x \in 2..(i - 1) : s[x] \in Lower
            /\ s[i] \in Upper
            /\ k >= i + 2
            /\ \A x \in (i + 1)..(k - 1) : s[x] \in Lower
            /\ n - k + 1 >= 3
            /\ \A x \in k..n : s[x] \in Digit

\* re.match(r'.*\d{6,}$', author); "." matches anything but a newline
MatchesDigitSuffix(author) ==
    LET s == IF Len(author) > 0 /\ author[Len(author)] = "\n"
             THEN SubSeq(author, 1, Len(author) - 1) ELSE author
        n == Len(s)
    IN  /\ n >= 6
        /\ \A x \in (n - 5)..n : s[x] \in Digit
        /\ \A x \in 1..n : s[x] # "\n"

\* UsernameSignal with the second pattern tested on its own (if, not elif)
UsernameSignalBothTested(author) ==
    IF Len(author) = 0 THEN Nothing
    ELSE Both(IF MatchesCamelDigits(author) THEN Add(100, "username_pattern") ELSE Nothing,
              IF MatchesDigitSuffix(author) THEN Add(80, "numeric_username_suffix") ELSE Nothing)

\* Username pattern signals (bot-like names)
UsernameSignal(author) ==
    IF Len(author) = 0 THEN Nothing
    ELSE IF MatchesCamelDigits(author) THEN Add(100, "username_pattern")
    ELSE IF MatchesDigitSuffix(author) THEN Add(80, "numeric_username_suffix")
    ELSE Nothing

\* Cap without the cap
CapMissing(score) == score

\* Cap at 1.0
Cap(score) == IF score < 1000 THEN score ELSE 1000

\* score_account(post, all_posts) -> (round(score, 3), signals)
score_account(post, all_posts) ==
    LET total == Both(Both(IdentitySignals(post), OddHourSignal(post.date)),
                      Both(SimilaritySignal(post, all_posts),
                           UsernameSignal(post.author)))
    IN  [score |-> Cap(total.score), signals |-> total.signals]



(***************************************************************************)
(* tag_narratives.tag_narratives, called by collect._finalize_post         *)
(***************************************************************************)
\* str.lower() of one character
LowerOf(c) ==
    CASE c = "A" -> "a" [] c = "B" -> "b" [] c = "C" -> "c" [] c = "D" -> "d"
      [] c = "E" -> "e" [] c = "F" -> "f" [] c = "G" -> "g" [] c = "H" -> "h"
      [] c = "I" -> "i" [] c = "J" -> "j" [] c = "K" -> "k" [] c = "L" -> "l"
      [] c = "M" -> "m" [] c = "N" -> "n" [] c = "O" -> "o" [] c = "P" -> "p"
      [] c = "Q" -> "q" [] c = "R" -> "r" [] c = "S" -> "s" [] c = "T" -> "t"
      [] c = "U" -> "u" [] c = "V" -> "v" [] c = "W" -> "w" [] c = "X" -> "x"
      [] c = "Y" -> "y" [] c = "Z" -> "z" [] OTHER -> c

\* ToLower leaving the text as it is
ToLowerMissing(text) == text

\* text.lower()
ToLower(text) == [k \in 1..Len(text) |-> LowerOf(text[k])]

\* kw in lower
Contains(lower, kw) ==
    \E k \in 0..(Len(lower) - Len(kw)) : SubSeq(lower, k + 1, k + Len(kw)) = kw

\* NARRATIVE_RULES["royalties"]
Keywords_royalties ==
    <<<<"p", "a", "y", "s", " ", "a", "r", "t", "i", "s", "t", "s">>,
      <<"r", "o", "y", "a", "l", "t", "i", "e", "s">>,
      <<"5", "x", " ", "m", "o", "r", "e">>,
      <<"f", "i", "v", "e", " ", "t", "i", "m", "e", "s">>,
      <<"f", "a", "i", "r", " ", "p", "a", "y">>,
      <<"a", "r", "t", "i", "s", "t", " ", "p", "a", "y">>,
      <<"a", "r", "t", "i", "s", "t", " ", "p", "a", "y", "m", "e", "n", "t">>,
      <<"p", "a", "y", "s", " ", "m", "u", "s", "i", "c", "i", "a", "n", "s">>,
      <<"r", "e", "v", "e", "n", "u", "e", " ", "s", "h", "a", "r", "e">>,
      <<"p", "a", "y", "s", " ", "m", "o", "r", "e">>,
      <<"b", "e", "t", "t", "e", "r", " ", "f", "o", "r", " ", "a", "r", "t", "i", "s", "t", "s">>,
      <<"a", "r", "t", "i", "s", "t", " ", "c", "o", "m", "p", "e", "n", "s", "a", "t", "i", "o", "n">>,
      <<"s", "u", "s", "t", "a", "i", "n", "a", "b", "l", "e">>,
      <<"r", "e", "d", "i", "s", "t", "r", "i", "b", "u", "t", "e", "d", " ", "r", "o", "y", "a", "l", "t", "i", "e", "s">>,
      <<"s", "t", "r", "e", "a", "m", "i", "n", "g", " ", "p", "a", "y", "o", "u", "t", "s">>,
      <<"p", "e", "r", " ", "s", "t", "r", "e", "a", "m">>,
      <<"p", "a", "y", "s", " ", "l", "a", "b", "e", "l", "s">>,
      <<"m", "u", "s", "i", "c", " ", "e", "c", "o", "n", "o", "m", "y">>>>

\* NARRATIVE_RULES["quality"]
Keywords_quality ==
    <<<<"l", "o", "s", "s", "l", "e", "s", "s">>,
      <<"h", "i", "-", "f", "i">>,
      <<"h", "i", "f", "i">>,
      <<"h", "i", "g", "h", " ", "f", "i", "d", "e", "l", "i", "t", "y">>,
      <<"2", "4", "-", "b", "i", "t">>,
      <<"2", "4", "b", "i", "t">>,
      <<"f", "l", "a", "c">>,
      <<"w", "a", "v">>,
      <<"s", "o", "u", "n", "d", " ", "q", "u", "a", "l", "i", "t", "y">>,
      <<"a", "u", "d", "i", "o", "p", "h", "i", "l", "e">>,
      <<"h", "i", "g", "h", " ", "r", "e", "s", "o", "l", "u", "t", "i", "o", "n">>,
      <<"h", "i", "-", "r", "e", "s">>,
      <<"h", "i", "r", "e", "s">>,
      <<"s", "t", "u", "d", "i", "o", " ", "q", "u", "a", "l", "i", "t", "y">>,
      <<"c", "d", " ", "q", "u", "a", "l", "i", "t", "y">>,
      <<"m", "a", "s", "t", "e", "r", " ", "q", "u", "a", "l", "i", "t", "y">>,
      <<"m", "q", "a">>,
      <<"3", "2", "0", "k", "b", "p", "s">>,
      <<"h", "i", "g", "h", " ", "q", "u", "a", "l", "i", "t", "y", " ", "a", "u", "d", "i", "o">>,
      <<"b", "e", "t", "t", "e", "r", " ", "a", "u", "d", "i", "o">>,
      <<"s", "u", "p", "e", "r", "i", "o", "r", " ", "s", "o", "u", "n", "d">>,
      <<"b", "e", "t", "t", "e", "r", " ", "s", "o", "u", "n", "d">>,
      <<"q", "u", "a", "l", "i", "t", "y", " ", "s", "t", "r", "e", "a", "m", "i", "n", "g">>,
      <<"n", "o", " ", "c", "o", "m", "p", "r", "e", "s", "s", "i", "o", "n">>>>

\* NARRATIVE_RULES["anti-ceo"]
Keywords_anti_ceo ==
    <<<<"d", "a", "n", "i", "e", "l", " ", "e", "k">>,
      <<"w", "e", "a", "p", "o", "n", "s">>,
      <<"d", "r", "o", "n", "e">>,
      <<"7", "0", "0", "m">>,
      <<"i", "n", "v", "e", "s", "t", "m", "e", "n", "t">>,
      <<"m", "i", "l", "i", "t", "a", "r", "y">>,
      <<"a", "r", "m", "s">>,
      <<"d", "e", "f", "e", "n", "s", "e">>,
      <<"e", "k", " ", "i", "n", "v", "e", "s", "t", "e", "d">>,
      <<"s", "p", "o", "t", "i", "f", "y", " ", "c", "e", "o">>,
      <<"a", "r", "m", "s", " ", "m", "a", "n", "u", "f", "a", "c", "t", "u", "r", "e", "r">>,
      <<"e", "m", "b", "a", "r", "g", "o">>,
      <<"s", "u", "r", "v", "e", "i", "l", "l", "a", "n", "c", "e">>,
      <<"s", "p", "o", "t", "i", "f", "y", " ", "f", "o", "u", "n", "d", "e", "r">>,
      <<"w", "a", "r">>,
      <<"p", "a", "l", "a", "n", "t", "i", "r">>,
      <<"a", "n", "d", "u", "r", "i", "l">>,
      <<"s", "h", "i", "e", "l", "d", " ", "a", "i">>,
      <<"s", "i", "l", "i", "c", "o", "n", " ", "v", "a", "l", "l", "e", "y">>,
      <<"t", "e", "c", "h", " ", "b", "i", "l", "l", "i", "o", "n", "a", "i", "r", "e">>>>

\* NARRATIVE_RULES["boycott-israel"]
Keywords_boycott_israel ==
    <<<<"b", "o", "y", "c", "o", "t", "t">>,
      <<"i", "s", "r", "a", "e", "l">>,
      <<"b", "d", "s">>,
      <<"a", "p", "a", "r", "t", "h", "e", "i", "d">>,
      <<"p", "a", "l", "e", "s", "t", "i", "n", "i", "a", "n">>,
      <<"g", "e", "n", "o", "c", "i", "d", "e">>,
      <<"o", "c", "c", "u", "p", "a", "t", "i", "o", "n">>,
      <<"z", "i", "o", "n", "i", "s", "t">>,
      <<"f", "r", "e", "e", " ", "p", "a", "l", "e", "s", "t", "i", "n", "e">>,
      <<"d", "e", "c", "o", "l", "o", "n", "i", "z", "e">>,
      <<"e", "t", "h", "n", "i", "c", " ", "c", "l", "e", "a", "n", "s", "i", "n", "g">>,
      <<"w", "a", "r", " ", "c", "r", "i", "m", "e", "s">>,
      <<"i", "d", "f">>,
      <<"g", "a", "z", "a">>,
      <<"w", "e", "s", "t", " ", "b", "a", "n", "k">>,
      <<"s", "e", "t", "t", "l", "e", "r">>>>

\* NARRATIVE_RULES["degoogle"]
Keywords_degoogle ==
    <<<<"d", "e", "g", "o", "o", "g", "l", "e">>,
      <<"d", "e", "-", "g", "o", "o", "g", "l", "e">>,
      <<"p", "r", "i", "v", "a", "c", "y">>,
      <<"b", "i", "g", " ", "t", "e", "c", "h">>,
      <<"s", "u", "r", "v", "e", "i", "l", "l", "a", "n", "c", "e", " ", "c", "a", "p", "i", "t", "a", "l", "i", "s", "m">>,
      <<"d", "a", "t", "a", " ", "c", "o", "l", "l", "e", "c", "t", "i", "o", "n">>,
      <<"t", "r", "a", "c", "k", "i", "n", "g">>,
      <<"a", "l", "g", "o", "r", "i", "t", "h", "m", "i", "c">>,
      <<"a", "l", "g", "o", "r", "i", "t", "h", "m">>,
      <<"i", "n", "d", "e", "p", "e", "n", "d", "e", "n", "t">>,
      <<"n", "o", " ", "a", "d", "s">>,
      <<"a", "d", "-", "f", "r", "e", "e">>,
      <<"d", "e", "a", "m", "a", "z", "o", "n">>,
      <<"b", "i", "g", " ", "s", "t", "r", "e", "a", "m", "i", "n", "g">>,
      <<"c", "o", "r", "p", "o", "r", "a", "t", "e", " ", "s", "t", "r", "e", "a", "m", "i", "n", "g">>,
      <<"m", "o", "n", "o", "p", "o", "l", "y">>,
      <<"a", "n", "t", "i", "t", "r", "u", "s", "t">>,
      <<"w", "a", "l", "l", "e", "d", " ", "g", "a", "r", "d", "e", "n">>>>

\* NARRATIVE_RULES["anti-spotify"]
Keywords_anti_spotify ==
    <<<<"q", "u", "i", "t", " ", "s", "p", "o", "t", "i", "f", "y">>,
      <<"l", "e", "a", "v", "e", " ", "s", "p", "o", "t", "i", "f", "y">>,
      <<"d", "e", "a", "t", "h", " ", "t", "o", " ", "s", "p", "o", "t", "i", "f", "y">>,
      <<"d", "e", "l", "e", "t", "e", " ", "s", "p", "o", "t", "i", "f", "y">>,
      <<"c", "a", "n", "c", "e", "l", " ", "s", "p", "o", "t", "i", "f", "y">>,
      <<"d", "r", "o", "p", " ", "s", "p", "o", "t", "i", "f", "y">>,
      <<"d", "u", "m", "p", " ", "s", "p", "o", "t", "i", "f", "y">>,
      <<"d", "i", "t", "c", "h", " ", "s", "p", "o", "t", "i", "f", "y">>,
      <<"b", "o", "y", "c", "o", "t", "t", " ", "s", "p", "o", "t", "i", "f", "y">>,
      <<"f", "u", "c", "k", " ", "s", "p", "o", "t", "i", "f", "y">>,
      <<"f", " ", "s", "p", "o", "t", "i", "f", "y">>,
      <<"h", "a", "t", "e", " ", "s", "p", "o", "t", "i", "f", "y">>,
      <<"s", "p", "o", "t", "i", "f", "y", " ", "i", "s", " ", "g", "a", "r", "b", "a", "g", "e">>,
      <<"s", "p", "o", "t", "i", "f", "y", " ", "i", "s", " ", "t", "r", "a", "s", "h">>,
      <<"s", "p", "o", "t", "i", "f", "y", " ", "s", "u", "c", "k", "s">>,
      <<"m", "o", "v", "i", "n", "g", " ", "a", "w", "a", "y", " ", "f", "r", "o", "m", " ", "s", "p", "o", "t", "i", "f", "y">>,
      <<"l", "e", "a", "v", "i", "n", "g", " ", "s", "p", "o", "t", "i", "f", "y">>,
      <<"s", "w", "i", "t", "c", "h", "e", "d", " ", "f", "r", "o", "m", " ", "s", "p", "o", "t", "i", "f", "y">>,
      <<"n", "o", " ", "l", "o", "n", "g", "e", "r", " ", "u", "s", "e", " ", "s", "p", "o", "t", "i", "f", "y">>,
      <<"u", "n", "s", "u", "b", "s", "c", "r", "i", "b", "e", "d", " ", "f", "r", "o", "m", " ", "s", "p", "o", "t", "i", "f", "y">>>>

\* NARRATIVE_RULES["pro-indie"]
Keywords_pro_indie ==
    <<<<"i", "n", "d", "e", "p", "e", "n", "d", "e", "n", "t", " ", "a", "r", "t", "i", "s", "t", "s">>,
      <<"i", "n", "d", "i", "e", " ", "a", "r", "t", "i", "s", "t", "s">>,
      <<"d", "i", "y">>,
      <<"d", "i", "r", "e", "c", "t", " ", "p", "a", "y">>,
      <<"s", "m", "a", "l", "l", " ", "a", "r", "t", "i", "s", "t", "s">>,
      <<"u", "n", "s", "i", "g", "n", "e", "d", " ", "a", "r", "t", "i", "s", "t", "s">>,
      <<"l", "o", "c", "a", "l", " ", "a", "r", "t", "i", "s", "t", "s">>,
      <<"e", "m", "e", "r", "g", "i", "n", "g", " ", "a", "r", "t", "i", "s", "t", "s">>,
      <<"n", "e", "w", " ", "a", "r", "t", "i", "s", "t", "s">>,
      <<"a", "r", "t", "i", "s", "t", " ", "f", "i", "r", "s", "t">>,
      <<"s", "u", "p", "p", "o", "r", "t", " ", "a", "r", "t", "i", "s", "t", "s">>,
      <<"m", "u", "s", "i", "c", " ", "c", "o", "m", "m", "u", "n", "i", "t", "y">>,
      <<"g", "r", "a", "s", "s", "r", "o", "o", "t", "s">>,
      <<"a", "u", "t", "h", "e", "n", "t", "i", "c", " ", "m", "u", "s", "i", "c">>,
      <<"c", "u", "r", "a", "t", "e", "d", " ", "m", "u", "s", "i", "c">>,
      <<"e", "d", "i", "t", "o", "r", "i", "a", "l", " ", "t", "e", "a", "m">>,
      <<"m", "u", "s", "i", "c", " ", "e", "x", "p", "e", "r", "t", "s">>,
      <<"m", "u", "s", "i", "c", " ", "l", "o", "v", "e", "r", "s">>,
      <<"m", "u", "s", "i", "c", " ", "e", "n", "t", "h", "u", "s", "i", "a", "s", "t", "s">>>>

\* NARRATIVE_RULES["switch-recommendation"]
Keywords_switch_recommendation ==
    <<<<"s", "w", "i", "t", "c", "h", " ", "t", "o", " ", "q", "o", "b", "u", "z">>,
      <<"s", "w", "i", "t", "c", "h", "e", "d", " ", "t", "o", " ", "q", "o", "b", "u", "z">>,
      <<"s", "w", "i", "t", "c", "h", "i", "n", "g", " ", "t", "o", " ", "q", "o", "b", "u", "z">>,
      <<"t", "r", "y", " ", "q", "o", "b", "u", "z">>,
      <<"r", "e", "c", "o", "m", "m", "e", "n", "d", " ", "q", "o", "b", "u", "z">>,
      <<"m", "o", "v", "e", "d", " ", "t", "o", " ", "q", "o", "b", "u", "z">>,
      <<"m", "o", "v", "e", " ", "t", "o", " ", "q", "o", "b", "u", "z">>,
      <<"c", "h", "e", "c", "k", " ", "o", "u", "t", " ", "q", "o", "b", "u", "z">>,
      <<"q", "o", "b", "u", "z", " ", "i", "s", " ", "b", "e", "t", "t", "e", "r">>,
      <<"q", "o", "b", "u", "z", " ", "o", "v", "e", "r", " ", "s", "p", "o", "t", "i", "f", "y">>,
      <<"q", "o", "b", "u", "z", " ", "i", "n", "s", "t", "e", "a", "d">>,
      <<"s", "p", "o", "t", "i", "f", "y", " ", "t", "o", " ", "q", "o", "b", "u", "z">>,
      <<"a", "m", "a", "z", "o", "n", " ", "t", "o", " ", "q", "o", "b", "u", "z">>,
      <<"a", "p", "p", "l", "e", " ", "m", "u", "s", "i", "c", " ", "t", "o", " ", "q", "o", "b", "u", "z">>,
      <<"y", "o", "u", "t", "u", "b", "e", " ", "t", "o", " ", "q", "o", "b", "u", "z">>,
      <<"t", "i", "d", "a", "l", " ", "t", "o", " ", "q", "o", "b", "u", "z">>,
      <<"f", "r", "o", "m", " ", "s", "p", "o", "t", "i", "f", "y">>,
      <<"s", "p", "o", "t", "i", "f", "y", " ", "a", "l", "t", "e", "r", "n", "a", "t", "i", "v", "e">>,
      <<"a", "l", "t", "e", "r", "n", "a", "t", "i", "v", "e", " ", "t", "o", " ", "s", "p", "o", "t", "i", "f", "y">>>>

\* NARRATIVE_RULES, in the order of the dict
NARRATIVE_RULES ==
    <<[narrative |-> "royalties", keywords |-> Keywords_royalties],
      [narrative |-> "quality", keywords |-> Keywords_quality],
      [narrative |-> "anti-ceo", keywords |-> Keywords_anti_ceo],
      [narrative |-> "boycott-israel", keywords |-> Keywords_boycott_israel],
      [narrative |-> "degoogle", keywords |-> Keywords_degoogle],
      [narrative |-> "anti-spotify", keywords |-> Keywords_anti_spotify],
      [narrative |-> "pro-indie", keywords |-> Keywords_pro_indie],
      [narrative |-> "switch-recommendation", keywords |-> Keywords_switch_recommendation]>>

\* any(kw in lower for kw in keywords)
AnyKeyword(lower, keywords) ==
    \E k \in 1..Len(keywords) : Contains(lower, keywords[k])

\* tag_narratives(text): the labels with a keyword hit, in the order of the table
tag_narratives(text) ==
    IF text = <<>> THEN <<>>
    ELSE LET lower == ToLower(text)
             hit(rule) == AnyKeyword(lower, rule.keywords)
             matched == SelectSeq(NARRATIVE_RULES, hit)
         IN  [k \in 1..Len(matched) |-> matched[k].narrative]

\* full_text of _finalize_post
FullText(post) == post.title \o <<" ">> \o post.text

\* the <<text, title>> pairs the items of the model carry
KnownPairs ==
    {<<BodyCampaign, <<>> >>, <<BodyCampaign49, <<>> >>,
     <<BodySplit, TitleSplit>>, <<BodyEdge, TitleEdge>>,
     <<BodyUnrelated, <<>> >>, <<<<>>, <<>> >>}

\* tag_narratives tabulated once over the texts of the model:
\* Tags(text) is tag_narratives(text) for every text
KnownFullTexts == {x[2] \o <<" ">> \o x[1] : x \in KnownPairs}

TagsOf == [text \in KnownFullTexts |-> tag_narratives(text)]

Tags(text) == IF text \in KnownFullTexts THEN TagsOf[text] ELSE tag_narratives(text)

\* _finalize_post, for a post translate_post leaves as it is: the narrative
\* labels of title + " " + text are stored on the post
finalize_post(post) == [post EXCEPT !.narratives = Tags(FullText(post))]

(***************************************************************************)
(* collect.detect_direction and tag_narratives.detect_platform_from, called *)
(* by collect._finalize_post                                               *)
(***************************************************************************)
\* CRITICISM_KEYWORDS
CRITICISM_KEYWORDS ==
    <<<<"n", "o", "t", " ", "w", "o", "r", "k", "i", "n", "g">>,
      <<"b", "r", "o", "k", "e", "n">>,
      <<"b", "u", "g">>,
      <<"c", "r", "a", "s", "h">>,
      <<"i", "s", "s", "u", "e">>,
      <<"p", "r", "o", "b", "l", "e", "m">>,
      <<"c", "o", "m", "p", "l", "a", "i", "n", "t">>,
      <<"c", "a", "n", "c", "e", "l">>,
      <<"r", "e", "f", "u", "n", "d">>,
      <<"l", "e", "a", "v", "i", "n", "g", " ", "q", "o", "b", "u", "z">>,
      <<"s", "w", "i", "t", "c", "h", "e", "d", " ", "f", "r", "o", "m", " ", "q", "o", "b", "u", "z">>,
      <<"w", "o", "r", "s", "e", " ", "t", "h", "a", "n">>,
      <<"q", "o", "b", "u", "z", " ", "s", "u", "c", "k", "s">>,
      <<"d", "i", "s", "a", "p", "p", "o", "i", "n", "t", "e", "d">>,
      <<"p", "o", "o", "r", " ", "c", "u", "s", "t", "o", "m", "e", "r">>,
      <<"m", "i", "s", "s", "i", "n", "g", " ", "a", "l", "b", "u", "m">>,
      <<"m", "i", "s", "s", "i", "n", "g", " ", "a", "r", "t", "i", "s", "t">>,
      <<"c", "a", "t", "a", "l", "o", "g", " ", "g", "a", "p">>,
      <<"n", "o", " ", "s", "u", "p", "p", "o", "r", "t">>,
      <<"c", "u", "s", "t", "o", "m", "e", "r", " ", "s", "e", "r", "v", "i", "c", "e">>,
      <<"b", "i", "l", "l", "i", "n", "g">>,
      <<"o", "v", "e", "r", "p", "r", "i", "c", "e", "d">>,
      <<"p", "r", "i", "c", "e", " ", "h", "i", "k", "e">>,
      <<"t", "o", "o", " ", "e", "x", "p", "e", "n", "s", "i", "v", "e">>,
      <<"a", "p", "p", " ", "i", "s", " ", "b", "a", "d">>,
      <<"a", "p", "p", " ", "i", "s", " ", "t", "e", "r", "r", "i", "b", "l", "e">>,
      <<"q", "o", "b", "u", "z", " ", "l", "a", "c", "k", "s">>>>

\* PRO_KEYWORDS
PRO_KEYWORDS ==
    <<<<"s", "w", "i", "t", "c", "h", " ", "t", "o", " ", "q", "o", "b", "u", "z">>,
      <<"s", "w", "i", "t", "c", "h", "e", "d", " ", "t", "o", " ", "q", "o", "b", "u", "z">>,
      <<"s", "w", "i", "t", "c", "h", "i", "n", "g", " ", "t", "o", " ", "q", "o", "b", "u", "z">>,
      <<"r", "e", "c", "o", "m", "m", "e", "n", "d", " ", "q", "o", "b", "u", "z">>,
      <<"q", "o", "b", "u", "z", " ", "i", "s", " ", "b", "e", "t", "t", "e", "r">>,
      <<"m", "o", "v", "e", "d", " ", "t", "o", " ", "q", "o", "b", "u", "z">>,
      <<"l", "o", "v", "e", " ", "q", "o", "b", "u", "z">>,
      <<"q", "o", "b", "u", "z", " ", "o", "v", "e", "r">>,
      <<"b", "e", "s", "t", " ", "s", "t", "r", "e", "a", "m", "i", "n", "g">>,
      <<"f", "r", "o", "m", " ", "s", "p", "o", "t", "i", "f", "y", " ", "t", "o", " ", "q", "o", "b", "u", "z">>>>

\* PLATFORM_FROM_RULES["spotify"]
PlatformKeywords_spotify ==
    <<<<"s", "p", "o", "t", "i", "f", "y">>,
      <<"f", "r", "o", "m", " ", "s", "p", "o", "t", "i", "f", "y">>,
      <<"q", "u", "i", "t", " ", "s", "p", "o", "t", "i", "f", "y">>,
      <<"l", "e", "a", "v", "e", " ", "s", "p", "o", "t", "i", "f", "y">>,
      <<"s", "p", "o", "t", "i", "f", "y", " ", "p", "r", "e", "m", "i", "u", "m">>,
      <<"s", "p", "o", "t", "i", "f", "y", " ", "f", "r", "e", "e">>,
      <<"s", "p", "o", "t", "i", "f", "y", " ", "p", "o", "d", "c", "a", "s", "t">>>>

\* PLATFORM_FROM_RULES["amazon"]
PlatformKeywords_amazon ==
    <<<<"a", "m", "a", "z", "o", "n", " ", "m", "u", "s", "i", "c">>,
      <<"a", "m", "a", "z", "o", "n", " ", "u", "n", "l", "i", "m", "i", "t", "e", "d">>,
      <<"f", "r", "o", "m", " ", "a", "m", "a", "z", "o", "n">>,
      <<"q", "u", "i", "t", " ", "a", "m", "a", "z", "o", "n">>,
      <<"l", "e", "a", "v", "e", " ", "a", "m", "a", "z", "o", "n">>,
      <<"a", "m", "a", "z", "o", "n", " ", "p", "r", "i", "m", "e", " ", "m", "u", "s", "i", "c">>>>

\* PLATFORM_FROM_RULES["apple"]
PlatformKeywords_apple ==
    <<<<"a", "p", "p", "l", "e", " ", "m", "u", "s", "i", "c">>,
      <<"f", "r", "o", "m", " ", "a", "p", "p", "l", "e">>,
      <<"q", "u", "i", "t", " ", "a", "p", "p", "l", "e", " ", "m", "u", "s", "i", "c">>,
      <<"l", "e", "a", "v", "e", " ", "a", "p", "p", "l", "e", " ", "m", "u", "s", "i", "c">>,
      <<"i", "t", "u", "n", "e", "s">>,
      <<"a", "p", "p", "l", "e", " ", "o", "n", "e">>>>

\* PLATFORM_FROM_RULES["youtube"]
PlatformKeywords_youtube ==
    <<<<"y", "o", "u", "t", "u", "b", "e", " ", "m", "u", "s", "i", "c">>,
      <<"y", "o", "u", "t", "u", "b", "e", " ", "p", "r", "e", "m", "i", "u", "m">>,
      <<"f", "r", "o", "m", " ", "y", "o", "u", "t", "u", "b", "e">>,
      <<"q", "u", "i", "t", " ", "y", "o", "u", "t", "u", "b", "e", " ", "m", "u", "s", "i", "c">>,
      <<"l", "e", "a", "v", "e", " ", "y", "o", "u", "t", "u", "b", "e", " ", "m", "u", "s", "i", "c">>,
      <<"y", "t", " ", "m", "u", "s", "i", "c">>,
      <<"y", "t", "m">>>>

\* PLATFORM_FROM_RULES["tidal"]
PlatformKeywords_tidal ==
    <<<<"t", "i", "d", "a", "l">>,
      <<"f", "r", "o", "m", " ", "t", "i", "d", "a", "l">>,
      <<"q", "u", "i", "t", " ", "t", "i", "d", "a", "l">>,
      <<"l", "e", "a", "v", "e", " ", "t", "i", "d", "a", "l">>,
      <<"j", "a", "y", "-", "z", " ", "s", "t", "r", "e", "a", "m", "i", "n", "g">>>>

\* PLATFORM_FROM_RULES["deezer"]
PlatformKeywords_deezer ==
    <<<<"d", "e", "e", "z", "e", "r">>,
      <<"f", "r", "o", "m", " ", "d", "e", "e", "z", "e", "r">>,
      <<"q", "u", "i", "t", " ", "d", "e", "e", "z", "e", "r">>,
      <<"l", "e", "a", "v", "e", " ", "d", "e", "e", "z", "e", "r">>>>

\* PLATFORM_FROM_RULES, in the order of the dict
PLATFORM_FROM_RULES ==
    <<[platform |-> "spotify", keywords |-> PlatformKeywords_spotify],
      [platform |-> "amazon", keywords |-> PlatformKeywords_amazon],
      [platform |-> "apple", keywords |-> PlatformKeywords_apple],
      [platform |-> "youtube", keywords |-> PlatformKeywords_youtube],
      [platform |-> "tidal", keywords |-> PlatformKeywords_tidal],
      [platform |-> "deezer", keywords |-> PlatformKeywords_deezer]>>

\* detect_direction with "critical" returned whenever a critical keyword occurs
detect_directionSymmetric(text, narratives) ==
    IF text = <<>> THEN "neutral"
    ELSE LET lower == ToLower(text)
             is_critical == AnyKeyword(lower, CRITICISM_KEYWORDS)
             is_pro == \/ AnyKeyword(lower, PRO_KEYWORDS)
                       \/ "switch-recommendation" \in Range(narratives)
         IN  IF is_critical THEN "critical"
             ELSE IF is_pro THEN "pro"
             ELSE "neutral"

\* detect_direction(text, narratives)
detect_direction(text, narratives) ==
    IF text = <<>> THEN "neutral"
    ELSE LET lower == ToLower(text)
             is_critical == AnyKeyword(lower, CRITICISM_KEYWORDS)
             is_pro == \/ AnyKeyword(lower, PRO_KEYWORDS)
                       \/ "switch-recommendation" \in Range(narratives)
         IN  IF is_critical /\ ~is_pro THEN "critical"
             ELSE IF is_pro THEN "pro"
             ELSE "neutral"

\* the first position of lower at which a keyword of the list starts, and
\* Len(lower) + 1 when there is none
FirstHit(lower, keywords) ==
    LET at == {k \in 1..Len(lower) : \E i \in 1..Len(keywords) :
                  /\ k + Len(keywords[i]) - 1 <= Len(lower)
                  /\ SubSeq(lower, k, k + Len(keywords[i]) - 1) = keywords[i]}
    IN  IF at = {} THEN Len(lower) + 1
        ELSE CHOOSE k \in at : \A m \in at : k <= m

\* detect_platform_from returning the platform whose keyword comes first in
\* the text
detect_platform_fromEarliestInText(text) ==
    IF text = <<>> THEN "generic"
    ELSE LET lower == ToLower(text)
             hit(rule) == AnyKeyword(lower, rule.keywords)
             matched == SelectSeq(PLATFORM_FROM_RULES, hit)
         IN  IF matched = <<>> THEN "generic"
             ELSE (CHOOSE r \in Range(matched) :
                      \A q \in Range(matched) :
                          FirstHit(lower, r.keywords) <= FirstHit(lower, q.keywords)).platform

\* detect_platform_from(text): the first platform of the table with a hit
detect_platform_from(text) ==
    IF text = <<>> THEN "generic"
    ELSE LET lower == ToLower(text)
             hit(rule) == AnyKeyword(lower, rule.keywords)
             matched == SelectSeq(PLATFORM_FROM_RULES, hit)
         IN  IF matched = <<>> THEN "generic" ELSE matched[1].platform


(***************************************************************************)
(* collect.detect_campaign_bursts                                          *)
(* Candidates are handled by their position in all_posts, which stands for *)
(* the dict object the code passes around.                                 *)
(***************************************************************************)
WINDOW_HOURS == 72
MIN_POSTS == 3
BOT_THRESHOLD == 400

\* IsCandidate without the score threshold
IsCandidateAnyScore(p) ==
    /\ Len(p.narratives) > 0
    /\ p.date.kind # "none"

\* p.get("narratives") and p.get("bot_score", 0) >= BOT_THRESHOLD and p.get("date")
IsCandidate(p) ==
    /\ Len(p.narratives) > 0
    /\ p.bot_score >= BOT_THRESHOLD
    /\ p.date.kind # "none"

\* datetime.fromisoformat(p["date"].replace("Z", "+00:00")) does not raise
Parses(date) == date.kind = "ok"

\* dated, before the sort: the positions of the candidates whose date parses
Dated(all_posts) ==
    LET indices == [k \in 1..Len(all_posts) |-> k]
        keep(k) == IsCandidate(all_posts[k]) /\ Parses(all_posts[k].date)
    IN  SelectSeq(indices, keep)

\* SortByTime leaving the candidates in the order of all_posts
SortByTimeSkipped(all_posts, idx) == idx

\* list.sort(key=lambda x: x[0]): stable, ascending by instant
RECURSIVE SortByTime(_, _)
SortByTime(all_posts, idx) ==
    IF idx = <<>> THEN <<>>
    ELSE LET n == Len(idx)
             last == idx[n]
             rest == SortByTime(all_posts, SubSeq(idx, 1, n - 1))
             notAfter(k) == all_posts[k].date.t <= all_posts[last].date.t
             after(k) == all_posts[k].date.t > all_posts[last].date.t
         IN  SelectSeq(rest, notAfter) \o <<last>> \o SelectSeq(rest, after)

\* all_narratives
AllNarratives(all_posts, dated) ==
    UNION {Range(all_posts[dated[k]].narratives) : k \in 1..Len(dated)}

\* narr_posts for one narrative
NarrPosts(all_posts, dated, narrative) ==
    LET has(k) == narrative \in Range(all_posts[k].narratives)
    IN  SelectSeq(dated, has)

\* Window with the far end of the window left out
WindowHalfOpen(all_posts, narr_posts, i) ==
    LET start_dt == all_posts[narr_posts[i]].date.t
        end_dt == start_dt + WINDOW_HOURS
        inside(k) == start_dt <= all_posts[k].date.t /\ all_posts[k].date.t < end_dt
    IN  SelectSeq(narr_posts, inside)

\* Window reaching one hour too far
WindowTooWide(all_posts, narr_posts, i) ==
    LET start_dt == all_posts[narr_posts[i]].date.t
        end_dt == start_dt + WINDOW_HOURS + 1
        inside(k) == start_dt <= all_posts[k].date.t /\ all_posts[k].date.t <= end_dt
    IN  SelectSeq(narr_posts, inside)

\* window for start index i: start_dt <= dt <= start_dt + timedelta(hours=72)
Window(all_posts, narr_posts, i) ==
    LET start_dt == all_posts[narr_posts[i]].date.t
        end_dt == start_dt + WINDOW_HOURS
        inside(k) == start_dt <= all_posts[k].date.t /\ all_posts[k].date.t <= end_dt
    IN  SelectSeq(narr_posts, inside)

\* is a window large enough to be a burst
Qualifies(window) == Len(window) >= MIN_POSTS

\* FirstWindow without the break: the last i whose window qualifies
FirstWindowNoBreak(all_posts, narr_posts) ==
    LET hits == {i \in 1..Len(narr_posts) : Qualifies(Window(all_posts, narr_posts, i))}
    IN  IF hits = {} THEN 0 ELSE CHOOSE i \in hits : \A j \in hits : i >= j

\* the sliding window loop with its break: the first i whose window
\* qualifies, 0 when none does
FirstWindow(all_posts, narr_posts) ==
    LET hits == {i \in 1..Len(narr_posts) : Qualifies(Window(all_posts, narr_posts, i))}
    IN  IF hits = {} THEN 0 ELSE CHOOSE i \in hits : \A j \in hits : i <= j

\* ActualEnd reporting the far end of the window, start + 72h, instead
ActualEndOfWindow(all_posts, window) ==
    [all_posts[window[1]].date EXCEPT !.t = @ + WINDOW_HOURS]

\* max(dt for dt, _ in window): the first of the latest datetimes
ActualEnd(all_posts, window) ==
    LET latest == {i \in 1..Len(window) :
                      \A j \in 1..Len(window) :
                          all_posts[window[j]].date.t <= all_posts[window[i]].date.t}
        first == CHOOSE i \in latest : \A j \in latest : i <= j
    IN  all_posts[window[first]].date

\* the dict appended to bursts; start and end stand for the isoformat strings
BurstRecord(all_posts, narrative, window, start) ==
    LET actual_end == ActualEnd(all_posts, window)
    IN  [narrative |-> narrative,
         count |-> Len(window),
         start |-> start,
         end |-> actual_end,
         hours_span |-> actual_end.t - start.t]

\* burst_ids
BurstIds(all_posts, window) == {all_posts[window[k]].id : k \in 1..Len(window)}

\* MarkPosts stopping one post short of the end of all_posts
MarkPostsButLast(all_posts, burst_ids) ==
    [k \in 1..Len(all_posts) |->
        IF all_posts[k].id \in burst_ids /\ k < Len(all_posts)
        THEN [all_posts[k] EXCEPT !.campaign_burst = TRUE]
        ELSE all_posts[k]]

\* MarkPosts switching the flag over instead of setting it
MarkPostsToggle(all_posts, burst_ids) ==
    [k \in 1..Len(all_posts) |->
        IF all_posts[k].id \in burst_ids
        THEN [all_posts[k] EXCEPT !.campaign_burst = ~@]
        ELSE all_posts[k]]

\* "Mark posts": p["campaign_burst"] = True for every p whose id is in burst_ids
MarkPosts(all_posts, burst_ids) ==
    [k \in 1..Len(all_posts) |->
        IF all_posts[k].id \in burst_ids
        THEN [all_posts[k] EXCEPT !.campaign_burst = TRUE]
        ELSE all_posts[k]]

\* one pass of "for narrative in all_narratives" over the state of the call:
\* acc.posts is all_posts, acc.bursts the list, acc.windows the window each
\* burst was built from (a local of the code, kept for the properties)
NarrativeStep(acc, dated, narrative) ==
    LET narr_posts == NarrPosts(acc.posts, dated, narrative)
        i == IF Len(narr_posts) < MIN_POSTS THEN 0 ELSE FirstWindow(acc.posts, narr_posts)
        window == Window(acc.posts, narr_posts, i)
        start == acc.posts[narr_posts[i]].date
        already == \E k \in 1..Len(acc.bursts) :
                       /\ acc.bursts[k].narrative = narrative
                       /\ acc.bursts[k].start = start
    IN  IF i = 0 \/ already THEN acc
        ELSE [posts |-> MarkPosts(acc.posts, BurstIds(acc.posts, window)),
              bursts |-> Append(acc.bursts, BurstRecord(acc.posts, narrative, window, start)),
              windows |-> Append(acc.windows, window)]

RECURSIVE NarrativeLoop(_, _, _)
NarrativeLoop(acc, dated, order) ==
    IF order = <<>> THEN acc
    ELSE NarrativeLoop(NarrativeStep(acc, dated, Head(order)), dated, Tail(order))

\* the orders in which "for narrative in all_narratives" may visit a set
Orders(S) == {o \in [1..Cardinality(S) -> S] : Range(o) = S}

\* detect_campaign_bursts(all_posts), the set being iterated in order `order`
detect_campaign_bursts(all_posts, order) ==
    LET dated == SortByTime(all_posts, Dated(all_posts))
    IN  NarrativeLoop([posts |-> all_posts, bursts |-> <<>>, windows |-> <<>>],
                      dated, order)

\* the narratives the loop of detect_campaign_bursts iterates over
NarrativesOf(all_posts) ==
    AllNarratives(all_posts, SortByTime(all_posts, Dated(all_posts)))


(***************************************************************************)
(* collect.archive_old_posts, save_posts, build_metadata                   *)
(***************************************************************************)
ARCHIVE_AFTER_HOURS == 720
PRUNE_AFTER_HOURS == 9480
HOURS_PER_MONTH == 720
RUN_EVERY_HOURS == 3

\* how the "+HH:MM" / "-HH:MM" suffix of an isoformat string sorts
OffsetRank(off) == IF off >= 0 THEN off ELSE 100 - off

\* p.get("date", "") as a sort key: isoformat strings of one length sort by
\* the local date and time written, then by the offset suffix; "" sorts
\* first, and a string that is no date is taken to start with a letter
DateKey(date) ==
    CASE date.kind = "none" -> <<0, 0, 0>>
      [] date.kind = "ok" -> <<1, date.t + date.off, OffsetRank(date.off)>>
      [] date.kind = "bad" -> <<2, 0, 0>>

KeyLess(x, y) ==
    \/ x[1] < y[1]
    \/ x[1] = y[1] /\ x[2] < y[2]
    \/ x[1] = y[1] /\ x[2] = y[2] /\ x[3] < y[3]

\* posts.sort(key=lambda p: p.get("date", ""), reverse=True): stable
RECURSIVE SortNewestFirst(_)
SortNewestFirst(posts) ==
    IF posts = <<>> THEN <<>>
    ELSE LET n == Len(posts)
             last == posts[n]
             rest == SortNewestFirst(SubSeq(posts, 1, n - 1))
             notBelow(p) == ~KeyLess(DateKey(p.date), DateKey(last.date))
             below(p) == KeyLess(DateKey(p.date), DateKey(last.date))
         IN  SelectSeq(rest, notBelow) \o <<last>> \o SelectSeq(rest, below)

\* dt.strftime("%Y-%m"), months taken as 30 days long
MonthKey(t) == t \div HOURS_PER_MONTH

\* dt < cutoff, for a date that parses
IsOld(date, now_h) == Parses(date) /\ date.t < now_h - ARCHIVE_AFTER_HOURS

\* recent: the posts that stay in posts.json
Recent(posts, now_h) ==
    LET stays(p) == ~IsOld(p.date, now_h)
    IN  SelectSeq(posts, stays)

\* by_month[month_key]
MonthPosts(posts, now_h, month) ==
    LET goes(p) == IsOld(p.date, now_h) /\ MonthKey(p.date.t + p.date.off) = month
    IN  SelectSeq(posts, goes)

\* the archive files after "Write/merge monthly archives" and "Prune
\* archives older than 13 months"
ArchiveFiles(files, posts, now_h) ==
    LET months == {MonthKey(posts[k].date.t + posts[k].date.off) :
                      k \in {j \in 1..Len(posts) : IsOld(posts[j].date, now_h)}}
        existing(m) == IF m \in DOMAIN files THEN files[m] ELSE <<>>
        fresh(m) ==
            LET unseen(p) == \A k \in 1..Len(existing(m)) : existing(m)[k].id # p.id
            IN  SelectSeq(MonthPosts(posts, now_h, m), unseen)
        merged(m) == IF m \in months
                     THEN SortNewestFirst(existing(m) \o fresh(m))
                     ELSE files[m]
        year_ago == MonthKey(now_h - PRUNE_AFTER_HOURS)
    IN  [m \in {x \in (DOMAIN files) \cup months : x >= year_ago} |-> merged(m)]

\* the fields of build_metadata that depend on the core's output
build_metadata(posts, bursts) ==
    [total_posts |-> Len(posts),
     high_bot_suspicion_count |-> Cardinality({k \in 1..Len(posts) : posts[k].bot_score >= 600}),
     detected_bursts |-> bursts]


(***************************************************************************)
(* State                                                                   *)
(***************************************************************************)
VARIABLES
    scored_post,    \* score_account: the post argument
    score_corpus,   \* score_account: the all_posts argument
    score_result,   \* score_account: what the call returned
    burst_corpus,   \* detect_campaign_bursts: all_posts as passed in
    burst_done,     \* detect_campaign_bursts: has the call returned
    burst_out,      \* detect_campaign_bursts: all_posts after the call, the
                    \* list returned, and the window behind each burst
    burst_again,    \* detect_campaign_bursts: the same for a second call, made on
                    \* all_posts as the first call left it
    posts_file,     \* main: data/posts.json, the records it holds
    posts_form,     \* main: what data/posts.json reads as: "records", "unparsable"
                    \* (json.loads raises) or "not_records" (JSON that is no list
                    \* of dicts with an id)
    loaded,         \* main: the form of data/posts.json that load_existing met in
                    \* this run
    archive,        \* main: data/archive/<month>.json, by month
    metadata,       \* main: data/metadata.json
    now,            \* main: the time of the run, in hours
    pc,             \* main: where the run stands
    all_posts,      \* main: existing, then existing + new_posts
    n_existing,     \* main: len(existing)
    next_new,       \* main: the position in all_posts of the next post to score
    bursts,         \* main: what detect_campaign_bursts returned
    burst_windows,  \* main: for each burst returned, the positions in all_posts of
                    \* the items of its window
    run,            \* the number of runs started
    scored_in,      \* for each id, the runs in which score_account scored it
    full_text,      \* _finalize_post: full_text
    tag_out         \* _finalize_post: the narratives, direction and platform_from stored

score_vars == <<scored_post, score_corpus, score_result>>
burst_vars == <<burst_corpus, burst_done, burst_out, burst_again>>
main_vars == <<posts_file, posts_form, loaded, archive, metadata, now, pc, all_posts, n_existing,
              next_new, bursts, burst_windows, run, scored_in>>
tag_vars == <<full_text, tag_out>>
vars == <<score_vars, burst_vars, main_vars, tag_vars>>

NotCalled == [score |-> -1, signals |-> <<>>]
NotRun == [posts |-> <<>>, bursts |-> <<>>, windows |-> <<>>]

\* no call of score_account is being looked at
ScoreIdle ==
    /\ scored_post = Item(0, "news", <<>>, <<>>, <<>>, None, None, NoDate)
    /\ score_corpus = <<>>
    /\ score_result = NotCalled

\* no call of detect_campaign_bursts is being looked at
BurstIdle ==
    /\ burst_corpus = <<>>
    /\ burst_done = FALSE
    /\ burst_out = NotRun
    /\ burst_again = NotRun


NotTagged == [narratives |-> <<>>, direction |-> "", platform_from |-> ""]

\* no call of the keyword analysis is being looked at
TagIdle == full_text = <<>> /\ tag_out = NotTagged

FeedIds == 1..6

\* no run of main is being looked at
MainIdle ==
    /\ posts_file = <<>>
    /\ posts_form = "records"
    /\ loaded = "nothing"
    /\ archive = [m \in {} |-> <<>>]
    /\ metadata = build_metadata(<<>>, <<>>)
    /\ now = 10000
    /\ pc = "idle"
    /\ all_posts = <<>>
    /\ n_existing = 0
    /\ next_new = 1
    /\ bursts = <<>>
    /\ burst_windows = <<>>
    /\ run = 0
    /\ scored_in = [id \in FeedIds |-> {}]


(***************************************************************************)
(* The calls score_account(post, all_posts) checked on their own: the post *)
(* and the corpus are drawn from the sets below, the one action makes the  *)
(* call.                                                                   *)
(***************************************************************************)
MaxOthers == 4

Ages == {None, Some(29), Some(30), Some(89), Some(90)}
Karmas == {None, Some(9), Some(10), Some(49), Some(50), Some(99), Some(100)}
Identities ==
    {<<"reddit", a, k>> : a \in Ages, k \in Karmas}
        \cup {<<"news", None, None>>, <<"hackernews", Some(29), Some(9)>>}
Dates == {NoDate, BadDate, DateAt(25, 0), DateAt(26, 0), DateAt(30, 0), DateAt(31, 0)}
Authors == {AuthorPlain, AuthorBoth, AuthorNumeric, AuthorFiveDigits}
\* <<text, title>> of the scored post
Texts == {<<BodyCampaign, <<>> >>, <<BodyCampaign49, <<>> >>,
          <<BodySplit, TitleSplit>>, <<<<>>, <<>> >>}

ScoredPosts ==
    {Item(3, i[1], x[2], x[1], au, i[2], i[3], d) :
        i \in Identities, x \in Texts, au \in Authors, d \in Dates}

\* the other items of the corpus, by id
Others ==
    {Item(1, "reddit", <<>>, BodyCampaign, AuthorPlain, None, None, DateAt(25, 0)),
     Item(2, "news", <<>>, BodyCampaign49, AuthorPlain, None, None, DateAt(25, 0)),
     Item(4, "reddit", TitleSplit, BodySplit, AuthorPlain, None, None, DateAt(25, 0)),
     Item(5, "hackernews", TitleEdge, BodyEdge, AuthorPlain, None, None, DateAt(25, 0)),
     Item(6, "news", <<>>, BodyUnrelated, AuthorPlain, None, None, DateAt(25, 0))}

\* the items of a set, as a list in ascending id order
RECURSIVE ById(_)
ById(S) ==
    IF S = {} THEN <<>>
    ELSE LET p == CHOOSE q \in S : \A r \in S : q.id <= r.id
         IN  <<p>> \o ById(S \ {p})

Corpora(p) ==
    {ById(S \cup {p}) : S \in {X \in SUBSET Others : Cardinality(X) <= MaxOthers}}

ScoreInit ==
    /\ scored_post \in ScoredPosts
    /\ score_corpus \in Corpora(scored_post)
    /\ score_result = NotCalled
    /\ BurstIdle
    /\ MainIdle
    /\ TagIdle

\* score, signals = score_account(post, all_posts)
ScoreCall ==
    /\ score_result = NotCalled
    /\ score_result' = score_account(scored_post, score_corpus)
    /\ UNCHANGED <<scored_post, score_corpus, burst_vars, main_vars, tag_vars>>

ScoreNext == ScoreCall

SpecScore == ScoreInit /\ [][ScoreNext]_vars


(***************************************************************************)
(* The calls detect_campaign_bursts(all_posts) checked on their own: the   *)
(* corpus is built item by item from the scored and tagged items below,    *)
(* then the call is made.                                                  *)
(***************************************************************************)
MaxCorpus == 5

\* an item as the corpus holds it after tagging and scoring
Stored(id, narratives, bot_score, date) ==
    [Item(id, "reddit", <<>>, <<>>, AuthorPlain, None, None, date)
        EXCEPT !.narratives = narratives, !.bot_score = bot_score]

BurstItems ==
    {Stored(1, <<"quality">>, 400, DateAt(0, 0)),
     Stored(2, <<"quality", "royalties">>, 400, DateAt(72, 0)),
     Stored(3, <<"quality", "royalties">>, 780, DateAt(72, 2)),
     Stored(4, <<"quality", "royalties">>, 400, DateAt(73, 0)),
     Stored(5, <<"quality">>, 430, DateAt(73, 0)),
     Stored(6, <<"quality">>, 380, DateAt(1, 0)),
     Stored(7, <<>>, 400, DateAt(1, 0)),
     Stored(8, <<"quality">>, 400, BadDate),
     Stored(9, <<"quality">>, 400, NoDate)}

BurstInit == BurstIdle /\ ScoreIdle /\ MainIdle /\ TagIdle

\* all_posts grows by an item whose id it does not hold yet
BurstAppend ==
    /\ ~burst_done
    /\ Len(burst_corpus) < MaxCorpus
    /\ \E p \in BurstItems :
          /\ \A k \in 1..Len(burst_corpus) : burst_corpus[k].id # p.id
          /\ burst_corpus' = Append(burst_corpus, p)
    /\ UNCHANGED <<burst_done, burst_out, burst_again, score_vars, main_vars, tag_vars>>

\* bursts = detect_campaign_bursts(all_posts)
BurstDetect ==
    /\ ~burst_done
    /\ \E order \in Orders(NarrativesOf(burst_corpus)) :
          burst_out' = detect_campaign_bursts(burst_corpus, order)
    /\ burst_done' = TRUE
    /\ UNCHANGED <<burst_corpus, burst_again, score_vars, main_vars, tag_vars>>

BurstNext == BurstAppend \/ BurstDetect

SpecBurst == BurstInit /\ [][BurstNext]_vars


(***************************************************************************)
(* detect_campaign_bursts called twice in a row: the second call is made   *)
(* on all_posts as the first call left it.                                 *)
(***************************************************************************)
\* bursts = detect_campaign_bursts(all_posts), once more
BurstRepeat ==
    /\ burst_done
    /\ burst_again = NotRun
    /\ \E order \in Orders(NarrativesOf(burst_out.posts)) :
          burst_again' = detect_campaign_bursts(burst_out.posts, order)
    /\ UNCHANGED <<burst_corpus, burst_done, burst_out, score_vars, main_vars, tag_vars>>

RepeatNext == BurstAppend \/ BurstDetect \/ BurstRepeat

SpecRepeat == BurstInit /\ [][RepeatNext]_vars


(***************************************************************************)
(* The calls detect_campaign_bursts(all_posts) on the items of one         *)
(* narrative spread over three days.                                       *)
(***************************************************************************)
\* candidates at hours 0, 10, 40, 70 and 72 after the first, one at hour 73,
\* and one item below the score threshold
SpreadItems ==
    {Stored(1, <<"quality">>, 400, DateAt(100, 0)),
     Stored(2, <<"quality", "royalties">>, 550, DateAt(110, 0)),
     Stored(3, <<"quality">>, 400, DateAt(140, 2)),
     Stored(4, <<"royalties", "quality">>, 780, DateAt(170, 0)),
     Stored(5, <<"quality">>, 400, DateAt(172, 0)),
     Stored(6, <<"quality">>, 400, DateAt(173, 0)),
     Stored(7, <<"quality">>, 390, DateAt(120, 0))}

\* all_posts grows by an item whose id it does not hold yet
SpreadAppend ==
    /\ ~burst_done
    /\ Len(burst_corpus) < MaxCorpus
    /\ \E p \in SpreadItems :
          /\ \A k \in 1..Len(burst_corpus) : burst_corpus[k].id # p.id
          /\ burst_corpus' = Append(burst_corpus, p)
    /\ UNCHANGED <<burst_done, burst_out, burst_again, score_vars, main_vars, tag_vars>>

SpreadNext == SpreadAppend \/ BurstDetect

SpecSpread == BurstInit /\ [][SpreadNext]_vars


(***************************************************************************)
(* collect.main, run after run                                             *)
(***************************************************************************)
MaxRuns == 2

\* what the sources can return: posts as the collectors build them
Feed ==
    {Item(1, "news", <<>>, BodyCampaign, <<>>, None, None, DateAt(9267, 0)),
     Item(2, "reddit", <<>>, BodyCampaign, AuthorNumeric, Some(20), Some(50), DateAt(9294, 0)),
     Item(3, "reddit", TitleSplit, BodySplit, AuthorPlain, Some(10), Some(5), DateAt(9289, 2)),
     Item(4, "reddit", <<>>, BodyCampaign49, AuthorCamel, Some(25), Some(8), DateAt(9291, 0)),
     Item(5, "hackernews", <<>>, BodyCampaign, AuthorBoth, None, None, BadDate),
     Item(6, "hackernews", <<>>, BodyCampaign, AuthorBoth, None, None, NoDate)}

\* the ways a collector can list the posts of S
Listings(S) ==
    {q \in UNION {[1..n -> S] : n \in 0..Cardinality(S)} :
        \A i, j \in 1..Len(q) : i # j => q[i] # q[j]}

\* existing_ids = {p["id"] for p in existing}
IdsOf(posts) == {posts[k].id : k \in 1..Len(posts)}

\* how many hits more than it has distinct posts a source may return
MaxRepeats == 1

\* what a source can answer: its posts in any order, some left out, some
\* more than once
Hits(source) ==
    LET S == {f \in Feed : f.source = source}
    IN  UNION {[1..n -> S] : n \in 0..(Cardinality(S) + MaxRepeats)}

\* CollectLoop without the test on seen_this_run
RECURSIVE CollectLoopExistingOnly(_, _, _, _)
CollectLoopExistingOnly(hits, existing_ids, seen_this_run, posts) ==
    IF hits = <<>> THEN posts
    ELSE IF Head(hits).id \in existing_ids
         THEN CollectLoopExistingOnly(Tail(hits), existing_ids, seen_this_run, posts)
         ELSE CollectLoopExistingOnly(Tail(hits), existing_ids,
                                      seen_this_run \cup {Head(hits).id},
                                      Append(posts, Head(hits)))

\* the loop of a collector over the hits of its source:
\* if pid in existing_ids or pid in seen_this_run: continue
\* seen_this_run.add(pid); ...; posts.append(post)
RECURSIVE CollectLoop(_, _, _, _)
CollectLoop(hits, existing_ids, seen_this_run, posts) ==
    IF hits = <<>> THEN posts
    ELSE IF Head(hits).id \in existing_ids \/ Head(hits).id \in seen_this_run
         THEN CollectLoop(Tail(hits), existing_ids, seen_this_run, posts)
         ELSE CollectLoop(Tail(hits), existing_ids,
                          seen_this_run \cup {Head(hits).id},
                          Append(posts, Head(hits)))

\* what a collector may return, given existing_ids
Collected(source, existing_ids) ==
    {CollectLoop(hits, existing_ids, {}, <<>>) : hits \in Hits(source)}

\* collect_reddit_public leaves the account's age and karma out
AsPublic(post) == [post EXCEPT !.author_age_days = None, !.author_karma = None]

\* what collect_reddit_public returns for the submissions listed in q
AllAsPublic(q) == [k \in 1..Len(q) |-> AsPublic(q[k])]

\* _finalize_post(post) on each post collected
FinalizeAll(q) == [k \in 1..Len(q) |-> finalize_post(q[k])]

\* load_existing(): the records of the file, [] when json.loads raises, and
\* whatever else the file parses to
load_existing(file, form) == IF form = "records" THEN file ELSE <<>>

\* existing_ids = {p["id"] for p in existing} or existing + new_posts raises
\* for a value that is no list of dicts with an id
MainRaises(form) == form = "not_records"

\* existing = load_existing(); a run that raises ends there
Load ==
    /\ pc = "idle"
    /\ run < MaxRuns
    /\ run' = run + 1
    /\ loaded' = posts_form
    /\ all_posts' = IF MainRaises(posts_form) THEN all_posts
                    ELSE load_existing(posts_file, posts_form)
    /\ n_existing' = IF MainRaises(posts_form) THEN n_existing
                     ELSE Len(load_existing(posts_file, posts_form))
    /\ pc' = IF MainRaises(posts_form) THEN "failed" ELSE "collect"
    /\ UNCHANGED <<posts_file, posts_form, archive, metadata, now, next_new, bursts,
                   burst_windows, scored_in,
                   score_vars, burst_vars, tag_vars>>

\* FirstNew starting the scoring loop at the head of all_posts
FirstNewRescan(existing_len) == 1

\* "for post in new_posts": the position in all_posts = existing + new_posts
\* of the first post of new_posts
FirstNew(existing_len) == existing_len + 1

\* the collectors, reddit then news then hackernews, and
\* all_posts = existing + new_posts
Collect ==
    /\ pc = "collect"
    /\ \E reddit_creds \in BOOLEAN :
       \E reddit \in Collected("reddit", IdsOf(all_posts)) :
       \E news \in Collected("news", IdsOf(all_posts)) :
       \E hackernews \in Collected("hackernews", IdsOf(all_posts)) :
          LET from_reddit == IF reddit_creds THEN reddit ELSE AllAsPublic(reddit)
              new_posts == FinalizeAll(from_reddit \o news \o hackernews)
          IN  all_posts' = all_posts \o new_posts
    /\ next_new' = FirstNew(n_existing)
    /\ pc' = "score"
    /\ UNCHANGED <<posts_file, posts_form, loaded, archive, metadata, now, n_existing, bursts, burst_windows,
                   run,
                   scored_in, score_vars, burst_vars, tag_vars>>

\* one turn of "for post in new_posts"
ScoreOne ==
    /\ pc = "score"
    /\ next_new <= Len(all_posts)
    /\ \E result \in {score_account(all_posts[next_new], all_posts)} :
          all_posts' = [all_posts EXCEPT ![next_new].bot_score = result.score,
                                        ![next_new].bot_signals = result.signals]
    /\ scored_in' = [scored_in EXCEPT ![all_posts[next_new].id] = @ \cup {run}]
    /\ next_new' = next_new + 1
    /\ UNCHANGED <<posts_file, posts_form, loaded, archive, metadata, now, pc, n_existing, bursts,
                   burst_windows, run,
                   score_vars, burst_vars, tag_vars>>

\* bursts = detect_campaign_bursts(all_posts)
Detect ==
    /\ pc = "score"
    /\ next_new > Len(all_posts)
    /\ \E order \in Orders(NarrativesOf(all_posts)) :
          \E out \in {detect_campaign_bursts(all_posts, order)} :
              /\ all_posts' = out.posts
              /\ bursts' = out.bursts
              /\ burst_windows' = out.windows
    /\ pc' = "save"
    /\ UNCHANGED <<posts_file, posts_form, loaded, archive, metadata, now, n_existing, next_new, run,
                   scored_in, score_vars, burst_vars, tag_vars>>

\* archive_old_posts, save_posts, build_metadata; the next run starts
\* RUN_EVERY_HOURS later
Save ==
    /\ pc = "save"
    /\ archive' = ArchiveFiles(archive, all_posts, now)
    /\ posts_file' = SortNewestFirst(Recent(all_posts, now))
    /\ posts_form' = "records"
    /\ metadata' = build_metadata(all_posts, bursts)
    /\ now' = now + RUN_EVERY_HOURS
    /\ pc' = "idle"
    /\ UNCHANGED <<loaded, all_posts, n_existing, next_new, bursts, burst_windows,
                   run, scored_in,
                   score_vars, burst_vars, tag_vars>>

Init == MainIdle /\ ScoreIdle /\ BurstIdle /\ TagIdle

Next == Load \/ Collect \/ ScoreOne \/ Detect \/ Save

Spec == Init /\ [][Next]_vars


(***************************************************************************)
(* One run of collect.main over a data/posts.json that an earlier run      *)
(* wrote and that may have been damaged since.                             *)
(***************************************************************************)
\* what data/posts.json can read as
Forms == {"records", "unparsable", "not_records"}

\* post["bot_score"] = score; post["bot_signals"] = signals
ScoredAs(post, result) ==
    [post EXCEPT !.bot_score = result.score, !.bot_signals = result.signals]

\* a post as a run that collected it alone leaves it in data/posts.json
StoredAlone(post) ==
    UNION {{ScoredAs(p, result) : result \in {score_account(p, <<p>>)}} :
              p \in {finalize_post(post)}}

\* the records data/posts.json held when it was last written
StoredFiles ==
    {<<>>} \cup UNION {{<<p>> : p \in StoredAlone(f)} : f \in {g \in Feed : g.id = 2}}

LoadInit ==
    /\ posts_file \in StoredFiles
    /\ posts_form \in Forms
    /\ loaded = "nothing"
    /\ archive = [m \in {} |-> <<>>]
    /\ metadata = build_metadata(posts_file, <<>>)
    /\ now = 10000
    /\ pc = "idle"
    /\ all_posts = <<>>
    /\ n_existing = 0
    /\ next_new = 1
    /\ bursts = <<>>
    /\ burst_windows = <<>>
    /\ run = MaxRuns - 1
    /\ scored_in = [id \in FeedIds |-> {}]
    /\ ScoreIdle
    /\ BurstIdle
    /\ TagIdle

LoadNext == Load \/ Collect \/ ScoreOne \/ Detect \/ Save

SpecLoad == LoadInit /\ [][LoadNext]_vars


(***************************************************************************)
(* The calls score_account(post, all_posts) with the corpus listed in any  *)
(* order and the timestamp written with any offset.                        *)
(***************************************************************************)
\* hour 14 and hour 4 written in UTC; 01:00 UTC written as 03:00+02:00;
\* 03:00 UTC written as 08:00+05:00
OrderDates == {DateAt(14, 0), DateAt(4, 0), DateAt(25, 2), DateAt(27, 5)}

OrderPosts ==
    {Item(3, i[1], <<>>, x, AuthorPlain, i[2], i[3], d) :
        i \in {<<"reddit", Some(5), Some(2)>>, <<"news", None, None>>},
        x \in {BodyCampaign, BodyUnrelated},
        d \in OrderDates}

\* all_posts: the post and up to MaxOthers other items, in any order
OrderCorpora(p) ==
    {q \in Listings(Others \cup {p}) : p \in Range(q) /\ Len(q) <= MaxOthers + 1}

OrderInit ==
    /\ scored_post \in OrderPosts
    /\ score_corpus \in OrderCorpora(scored_post)
    /\ score_result = NotCalled
    /\ BurstIdle
    /\ MainIdle
    /\ TagIdle

OrderNext == ScoreCall

SpecOrder == OrderInit /\ [][OrderNext]_vars



(***************************************************************************)
(* The calls score_account(post, all_posts) for each item of a small       *)
(* corpus in turn.                                                         *)
(***************************************************************************)
MaxPair == 3

PairItems ==
    {Item(1, "news", <<>>, BodyCampaign, AuthorPlain, None, None, DateAt(14, 0)),
     Item(2, "news", <<>>, BodyCampaign49, AuthorPlain, None, None, DateAt(14, 0)),
     Item(3, "news", <<>>, BodyShuffled, AuthorPlain, None, None, DateAt(14, 0)),
     Item(4, "news", <<>>, BodyShuffledSwapped, AuthorPlain, None, None, DateAt(14, 0)),
     Item(5, "news", TitleSplit, BodySplit, AuthorPlain, None, None, DateAt(14, 0)),
     Item(6, "news", <<>>, BodyUnrelated, AuthorPlain, None, None, DateAt(14, 0))}

PairInit ==
    /\ score_corpus \in {q \in Listings(PairItems) : 1 <= Len(q) /\ Len(q) <= MaxPair}
    /\ scored_post \in Range(score_corpus)
    /\ score_result = NotCalled
    /\ BurstIdle
    /\ MainIdle
    /\ TagIdle

PairNext == ScoreCall

SpecPair == PairInit /\ [][PairNext]_vars


(***************************************************************************)
(* The keyword analysis of _finalize_post checked on its own: full_text is  *)
(* drawn from the texts below, the one action runs tag_narratives,          *)
(* detect_direction and detect_platform_from on it.                         *)
(***************************************************************************)
MaxPhrases == 2

\* "I switched because it pays artists better"
TextScenario4 ==
    <<"I", " ", "s", "w", "i", "t", "c", "h", "e", "d", " ", "b", "e", "c", "a", "u", "s", "e", " ", "i", "t", " ", "p", "a", "y", "s", " ", "a", "r", "t", "i", "s", "t", "s", " ", "b", "e", "t", "t", "e", "r">>

\* "the app keeps crashing, cancelling my subscription"
TextCrashing ==
    <<"t", "h", "e", " ", "a", "p", "p", " ", "k", "e", "e", "p", "s", " ", "c", "r", "a", "s", "h", "i", "n", "g", ",", " ", "c", "a", "n", "c", "e", "l", "l", "i", "n", "g", " ", "m", "y", " ", "s", "u", "b", "s", "c", "r", "i", "p", "t", "i", "o", "n">>

\* "I Switched To Qobuz"
TextSwitched ==
    <<"I", " ", "S", "w", "i", "t", "c", "h", "e", "d", " ", "T", "o", " ", "Q", "o", "b", "u", "z">>

\* "try Qobuz instead"
TextTry ==
    <<"t", "r", "y", " ", "Q", "o", "b", "u", "z", " ", "i", "n", "s", "t", "e", "a", "d">>

\* "leaving TIDAL"
TextTidal ==
    <<"l", "e", "a", "v", "i", "n", "g", " ", "T", "I", "D", "A", "L">>

\* "Apple Music is overpriced"
TextApple ==
    <<"A", "p", "p", "l", "e", " ", "M", "u", "s", "i", "c", " ", "i", "s", " ", "o", "v", "e", "r", "p", "r", "i", "c", "e", "d">>

\* "quit spotify"
TextSpotify ==
    <<"q", "u", "i", "t", " ", "s", "p", "o", "t", "i", "f", "y">>

\* "nice weather today"
TextWeather ==
    <<"n", "i", "c", "e", " ", "w", "e", "a", "t", "h", "e", "r", " ", "t", "o", "d", "a", "y">>

\* "ROYALTIES matter"
TextRoyalties ==
    <<"R", "O", "Y", "A", "L", "T", "I", "E", "S", " ", "m", "a", "t", "t", "e", "r">>

\* "love qobuz"
TextLove ==
    <<"l", "o", "v", "e", " ", "q", "o", "b", "u", "z">>

Phrases ==
    {TextScenario4, TextCrashing, TextSwitched, TextTry, TextTidal,
     TextApple, TextSpotify, TextWeather, TextRoyalties, TextLove}

\* the phrases of a list, joined by single spaces
RECURSIVE JoinPhrases(_)
JoinPhrases(q) ==
    IF Len(q) = 0 THEN <<>>
    ELSE IF Len(q) = 1 THEN q[1]
    ELSE q[1] \o <<" ">> \o JoinPhrases(Tail(q))

\* the empty text and every text of 1..MaxPhrases phrases
TagTexts ==
    {JoinPhrases(q) : q \in UNION {[1..n -> Phrases] : n \in 0..MaxPhrases}}

TagInit ==
    /\ full_text \in TagTexts
    /\ tag_out = NotTagged
    /\ ScoreIdle
    /\ BurstIdle
    /\ MainIdle

\* post["narratives"], post["direction"], post["platform_from"] of _finalize_post
TagCall ==
    /\ tag_out = NotTagged
    /\ \E narratives \in {tag_narratives(full_text)} :
          tag_out' = [narratives |-> narratives,
                      direction |-> detect_direction(full_text, narratives),
                      platform_from |-> detect_platform_from(full_text)]
    /\ UNCHANGED <<full_text, score_vars, burst_vars, main_vars>>

TagNext == TagCall

SpecTag == TagInit /\ [][TagNext]_vars



(***************************************************************************)
(* Properties of score_account                                             *)
(***************************************************************************)
Called == score_result # NotCalled

\* the weight the specification gives each signal, in thousandths
SignalWeight(name) ==
    CASE name = "very_new_account" -> 350
      [] name = "new_account" -> 200
      [] name = "very_low_karma" -> 250
      [] name = "low_karma" -> 150
      [] name = "new_and_low_karma" -> 100
      [] name = "odd_hour_post" -> 80
      [] name = "copy_paste_campaign" -> 350
      [] name = "similar_to_other_posts" -> 150
      [] name = "username_pattern" -> 100
      [] name = "numeric_username_suffix" -> 80

RECURSIVE SumWeights(_)
SumWeights(signals) ==
    IF signals = <<>> THEN 0
    ELSE SignalWeight(Head(signals)) + SumWeights(Tail(signals))

Min(x, y) == IF x <= y THEN x ELSE y

Has(name) == name \in Range(score_result.signals)

\* the other items of the corpus (self excluded by id) whose ratio to the
\* scored item exceeds 0.75
NearDuplicates ==
    {k \in 1..Len(score_corpus) :
        /\ score_corpus[k].id # scored_post.id
        /\ Similar(CombinedText(scored_post), CombinedText(score_corpus[k]))}

\* what the call returns for the same post when no other item is in the corpus
Alone == score_account(scored_post, <<scored_post>>)

\* what the call returns for the same post from a source without metadata
FromNews == score_account([scored_post EXCEPT !.source = "news"], score_corpus)

\* C1: the score returned by score_account is the sum of the weights of the
\* returned signals, capped at 1.0 (1000 thousandths), and lies in [0, 1].
C1_ScoreIsCappedSum ==
    Called =>
        /\ score_result.score = Min(SumWeights(score_result.signals), 1000)
        /\ 0 <= score_result.score
        /\ score_result.score <= 1000

\* C1 witness: the six signals of the uncapped maximum 1.23 fire together
\* and the score reported is 1.0.
C1_Witness ==
    /\ Called
    /\ SumWeights(score_result.signals) = 1230
    /\ score_result.score = 1000

\* C8: when the near-duplicate signal is evaluated, 3 or more other items
\* with ratio > 0.75 add copy_paste_campaign (+0.35), 1 or 2 add
\* similar_to_other_posts (+0.15), none adds neither, and the two signals
\* never appear together.
C8_NearDuplicateTiers ==
    (Called /\ SimilarityEvaluated(scored_post)) =>
        LET n == Cardinality(NearDuplicates)
        IN  /\ Has("copy_paste_campaign") <=> n >= 3
            /\ Has("similar_to_other_posts") <=> (n = 1 \/ n = 2)
            /\ ~(Has("copy_paste_campaign") /\ Has("similar_to_other_posts"))
            /\ n >= 3 => score_result.score = Min(Alone.score + 350, 1000)
            /\ n \in {1, 2} => score_result.score = Min(Alone.score + 150, 1000)
            /\ n = 0 => score_result.score = Alone.score

\* C8 witness: exactly three other items are near-duplicates, a fourth has a
\* ratio of exactly 0.75 and is not counted, and copy_paste_campaign fires.
C8_Witness ==
    /\ Called
    /\ Cardinality(NearDuplicates) = 3
    /\ Len(score_corpus) = 5
    /\ \E k \in 1..Len(score_corpus) :
          /\ score_corpus[k].text = BodyEdge
          /\ k \notin NearDuplicates
    /\ Has("copy_paste_campaign")

\* C9 as stated: an item whose title and body together have 50 characters
\* or fewer never receives copy_paste_campaign or similar_to_other_posts.
C9_AsStated ==
    (Called /\ Len(scored_post.title) + Len(scored_post.text) <= 50) =>
        ~Has("copy_paste_campaign") /\ ~Has("similar_to_other_posts")

\* C9 amended: the near-duplicate signal is evaluated exactly when the
\* combined text (body, one space, title) is not blank and longer than 50
\* characters, that is when title and body together have 50 characters or
\* more; with 49 or fewer the item never receives either signal.
C9_EvaluatedOverFifty ==
    Called =>
        LET together == Len(scored_post.title) + Len(scored_post.text)
            evaluated == together >= 50 /\ NotBlank(CombinedText(scored_post))
            signalled == Has("copy_paste_campaign") \/ Has("similar_to_other_posts")
        IN  /\ ~evaluated => ~signalled
            /\ evaluated => (signalled <=> NearDuplicates # {})

\* C9 witness: title and body together have exactly 50 characters and the
\* item receives a near-duplicate signal.
C9_Witness ==
    /\ Called
    /\ Len(scored_post.title) + Len(scored_post.text) = 50
    /\ Has("copy_paste_campaign")

\* C10: for a reddit item with known age and karma the identity signals
\* follow the threshold table, and new_and_low_karma is added on top exactly
\* when age < 90 and karma < 50.
C10_IdentityTable ==
    (/\ Called
     /\ scored_post.source = "reddit"
     /\ scored_post.author_age_days # None
     /\ scored_post.author_karma # None) =>
        LET age == scored_post.author_age_days[1]
            karma == scored_post.author_karma[1]
            points == (IF age < 30 THEN 350 ELSE IF age < 90 THEN 200 ELSE 0)
                      + (IF karma < 10 THEN 250 ELSE IF karma < 100 THEN 150 ELSE 0)
                      + (IF age < 90 /\ karma < 50 THEN 100 ELSE 0)
        IN  /\ Has("very_new_account") <=> age < 30
            /\ Has("new_account") <=> (30 <= age /\ age < 90)
            /\ Has("very_low_karma") <=> karma < 10
            /\ Has("low_karma") <=> (10 <= karma /\ karma < 100)
            /\ Has("new_and_low_karma") <=> (age < 90 /\ karma < 50)
            /\ score_result.score = Min(FromNews.score + points, 1000)

\* C10 witness: age exactly 30 and karma 49 give new_account, low_karma and
\* new_and_low_karma.
C10_Witness ==
    /\ Called
    /\ scored_post.source = "reddit"
    /\ scored_post.author_age_days = Some(30)
    /\ scored_post.author_karma = Some(49)
    /\ Has("new_account") /\ Has("low_karma") /\ Has("new_and_low_karma")

IdentityNames ==
    {"very_new_account", "new_account", "very_low_karma", "low_karma",
     "new_and_low_karma"}

\* C11: identity signals never fire for an item whose source is not reddit,
\* whatever its age and karma fields hold; for a reddit item a missing age
\* gives no age signal, a missing karma gives no karma signal, and
\* new_and_low_karma needs both; missing metadata adds nothing to the score.
C11_MissingMetadata ==
    Called =>
        /\ scored_post.source # "reddit" =>
              /\ \A name \in IdentityNames : ~Has(name)
              /\ score_result = FromNews
        /\ scored_post.author_age_days = None =>
              ~Has("very_new_account") /\ ~Has("new_account")
        /\ scored_post.author_karma = None =>
              ~Has("very_low_karma") /\ ~Has("low_karma")
        /\ Has("new_and_low_karma") =>
              scored_post.author_age_days # None /\ scored_post.author_karma # None
        /\ (scored_post.author_age_days = None /\ scored_post.author_karma = None) =>
              score_result = FromNews

\* C11 witness: a hackernews item whose fields say age 29 and karma 9 is
\* scored without any identity signal.
C11_Witness ==
    /\ Called
    /\ scored_post.source = "hackernews"
    /\ scored_post.author_age_days = Some(29)
    /\ scored_post.author_karma = Some(9)
    /\ \A name \in IdentityNames : ~Has(name)

\* C13: whatever the source, a username of the form Capitalized word,
\* Capitalized word, 3+ digits gives username_pattern and never
\* numeric_username_suffix, even when it ends in 6+ digits; a username ending
\* in 6+ digits that is not of that form gives numeric_username_suffix only;
\* the two signals never come together.
C13_UsernameSignals ==
    Called =>
        /\ ~(Has("username_pattern") /\ Has("numeric_username_suffix"))
        /\ scored_post.author = AuthorBoth =>
              Has("username_pattern") /\ ~Has("numeric_username_suffix")
        /\ scored_post.author = AuthorNumeric =>
              Has("numeric_username_suffix") /\ ~Has("username_pattern")
        /\ scored_post.author \in {AuthorPlain, AuthorFiveDigits} =>
              ~Has("numeric_username_suffix") /\ ~Has("username_pattern")

\* C13 witness: a news item by JohnSmith123456 gets username_pattern alone.
C13_Witness ==
    /\ Called
    /\ scored_post.source = "news"
    /\ scored_post.author = AuthorBoth
    /\ Has("username_pattern")
    /\ ~Has("numeric_username_suffix")


\* the hour, in UTC, of the instant a timestamp names
UTCHour(date) == date.t % 24

\* C12: for an item whose timestamp parses, odd_hour_post fires if and only
\* if the UTC hour of that instant is in 2..6, for a timestamp written with
\* any UTC offset.
C12_AsStated ==
    (Called /\ scored_post.date.kind = "ok") =>
        (Has("odd_hour_post") <=>
            (2 <= UTCHour(scored_post.date) /\ UTCHour(scored_post.date) <= 6))

\* a timestamp of 01:00 UTC written as 03:00+02:00 gets odd_hour_post
C12_OffsetHour ==
    /\ Called
    /\ scored_post.date = DateAt(25, 2)
    /\ Has("odd_hour_post")

\* C14: for the same item and the same set of corpus items, score_account
\* returns the same score and signal list whatever the order of the corpus
\* list: the result for the list as given is the result for the list in
\* ascending id order.
C14_OrderIndependent ==
    Called => score_result = score_account(scored_post, ById(Range(score_corpus)))

\* C14 witness: the scored item comes first in a list of four that is not in
\* id order and gets copy_paste_campaign.
C14_Witness ==
    /\ Called
    /\ Len(score_corpus) = 4
    /\ score_corpus[1] = scored_post
    /\ score_corpus # ById(Range(score_corpus))
    /\ Has("copy_paste_campaign")

\* C15: a reddit item with age_days = 5 and karma = 2, no near-duplicate in
\* the corpus, no username signal and a UTC timestamp at hour 14 scores
\* exactly 0.70 with very_new_account, very_low_karma, new_and_low_karma; at
\* hour 4 it gets odd_hour_post in addition and scores exactly 0.78.
C15_WorkedExample ==
    (/\ Called
     /\ scored_post.source = "reddit"
     /\ scored_post.author_age_days = Some(5)
     /\ scored_post.author_karma = Some(2)
     /\ scored_post.author = AuthorPlain
     /\ NearDuplicates = {}) =>
        /\ scored_post.date = DateAt(14, 0) =>
              score_result = [score |-> 700,
                              signals |-> <<"very_new_account", "very_low_karma",
                                            "new_and_low_karma">>]
        /\ scored_post.date = DateAt(4, 0) =>
              score_result = [score |-> 780,
                              signals |-> <<"very_new_account", "very_low_karma",
                                            "new_and_low_karma", "odd_hour_post">>]

\* C15 witness: the item at hour 4, in a corpus holding an unrelated item,
\* scored 0.78.
C15_Witness ==
    /\ Called
    /\ scored_post.author_age_days = Some(5)
    /\ scored_post.date = DateAt(4, 0)
    /\ Len(score_corpus) >= 2
    /\ NearDuplicates = {}
    /\ score_result.score = 780



(***************************************************************************)
(* Properties of detect_campaign_bursts                                    *)
(***************************************************************************)
Bursts == burst_out.bursts

\* a candidate, in the words of the specification: at least one narrative
\* label, bot_score >= 0.4 and a timestamp that parses
Candidate(p) ==
    /\ p.narratives # <<>>
    /\ p.bot_score >= 400
    /\ p.date.kind = "ok"

Labels == {"quality", "royalties", "degoogle"}

TimeOf(k) == burst_corpus[k].date.t

\* the candidates of the corpus that carry label n
SameLabel(n) ==
    {k \in 1..Len(burst_corpus) :
        Candidate(burst_corpus[k]) /\ n \in Range(burst_corpus[k].narratives)}

\* the same-label candidates inside the closed window [t_k, t_k + 72h]
InWindow(n, k) ==
    {m \in SameLabel(n) : TimeOf(k) <= TimeOf(m) /\ TimeOf(m) <= TimeOf(k) + 72}

\* the same-label candidates whose window holds at least 3
Starts(n) == {k \in SameLabel(n) : Cardinality(InWindow(n, k)) >= 3}

Earliest(n) == CHOOSE k \in Starts(n) : \A m \in Starts(n) : TimeOf(k) <= TimeOf(m)

BurstsOf(n) == {j \in 1..Len(Bursts) : Bursts[j].narrative = n}

\* the members of burst j: the items of the window it was built from
Members(j) == Range(burst_out.windows[j])

MaxTime(S) == CHOOSE t \in {TimeOf(k) : k \in S} : \A k \in S : TimeOf(k) <= t

\* C3: a burst is reported for a narrative iff some same-label candidate has
\* at least 3 same-label candidates in its closed 72h window; at most one
\* burst per narrative is reported, and it is the window of the earliest
\* such candidate.
C3_EarliestWindow ==
    burst_done =>
        \A n \in Labels :
            /\ BurstsOf(n) # {} <=> Starts(n) # {}
            /\ Cardinality(BurstsOf(n)) <= 1
            /\ \A j \in BurstsOf(n) :
                  /\ Bursts[j].start.t = TimeOf(Earliest(n))
                  /\ Members(j) = InWindow(n, Earliest(n))
                  /\ Bursts[j].count = Cardinality(InWindow(n, Earliest(n)))

\* C3 witness: the burst reported for "quality" starts at hour 0 with an item
\* exactly 72h later counted, although the window of a later candidate
\* holds more items.
C3_Witness ==
    /\ burst_done
    /\ \E j \in BurstsOf("quality") :
          /\ Bursts[j].start.t = 0
          /\ Bursts[j].end.t = 72
          /\ \E k \in Starts("quality") :
                Cardinality(InWindow("quality", k)) > Bursts[j].count

\* C4: every reported burst has count >= 3 and spans at most 72 hours from
\* its recorded start to its recorded end.
C4_CountAndSpan ==
    burst_done =>
        \A j \in 1..Len(Bursts) :
            /\ Bursts[j].count >= 3
            /\ Bursts[j].end.t - Bursts[j].start.t <= 72
            /\ Bursts[j].end.t - Bursts[j].start.t >= 0
            /\ Bursts[j].hours_span = Bursts[j].end.t - Bursts[j].start.t

\* C4 witness: a burst spanning exactly 72 hours while a same-label
\* candidate lies 73 hours after its start.
C4_Witness ==
    /\ burst_done
    /\ \E j \in 1..Len(Bursts) :
          /\ Bursts[j].hours_span = 72
          /\ \E k \in SameLabel(Bursts[j].narrative) :
                TimeOf(k) = Bursts[j].start.t + 73

\* C5: every item the call flags, and every item counted in a reported
\* burst, is a candidate; a counted item carries the burst's narrative.
C5_OnlyCandidates ==
    burst_done =>
        /\ \A k \in 1..Len(burst_corpus) :
              (burst_out.posts[k].campaign_burst /\ ~burst_corpus[k].campaign_burst)
                  => Candidate(burst_corpus[k])
        /\ \A j \in 1..Len(Bursts) : \A k \in Members(j) :
              /\ Candidate(burst_corpus[k])
              /\ Bursts[j].narrative \in Range(burst_corpus[k].narratives)

\* C5 witness: a burst holds an item scored exactly 0.4, while an item of
\* the same narrative scored 0.38 inside the window stays unflagged.
C5_Witness ==
    /\ burst_done
    /\ \E j \in 1..Len(Bursts) :
          /\ \E k \in Members(j) : burst_corpus[k].bot_score = 400
          /\ \E k \in 1..Len(burst_corpus) :
                /\ burst_corpus[k].bot_score = 380
                /\ Bursts[j].narrative \in Range(burst_corpus[k].narratives)
                /\ burst_corpus[k].date.kind = "ok"
                /\ Bursts[j].start.t <= TimeOf(k) /\ TimeOf(k) <= Bursts[j].end.t
                /\ ~burst_out.posts[k].campaign_burst

\* C6: after the call every member of every reported burst has
\* campaign_burst = true.
C6_MembersFlagged ==
    burst_done =>
        \A j \in 1..Len(Bursts) : \A k \in Members(j) :
            burst_out.posts[k].campaign_burst = TRUE

\* C6 witness: an item is a member of the bursts of two narratives and is
\* flagged.
C6_Witness ==
    /\ burst_done
    /\ \E i \in 1..Len(Bursts) : \E j \in 1..Len(Bursts) :
          /\ Bursts[i].narrative # Bursts[j].narrative
          /\ \E k \in Members(i) \cap Members(j) : burst_out.posts[k].campaign_burst

ScalarFields == {"narrative", "count", "start", "end", "hours_span"}

Tagged == tag_out # NotTagged

\* keyword kw occurs in text as a substring, letter case ignored
OccursIgnoringCase(kw, text) ==
    \E k \in 0..(Len(text) - Len(kw)) :
        \A i \in 1..Len(kw) : LowerOf(text[k + i]) = LowerOf(kw[i])

\* some keyword of the list occurs in text, letter case ignored
HitsAny(keywords, text) ==
    \E i \in 1..Len(keywords) : OccursIgnoringCase(keywords[i], text)

\* the fixed vocabulary of narrative labels
Vocabulary == {NARRATIVE_RULES[k].narrative : k \in 1..Len(NARRATIVE_RULES)}

\* a pro signal: a pro keyword, or the switch-recommendation label
ProSignal ==
    \/ HitsAny(PRO_KEYWORDS, full_text)
    \/ "switch-recommendation" \in Range(tag_out.narratives)

\* C16: the direction is critical iff a critical keyword is present and no
\* pro signal is; pro iff a pro signal is present, critical keywords or not;
\* neutral otherwise; "the app keeps crashing, cancelling my subscription"
\* is critical.
C16_DirectionPrecedence ==
    Tagged =>
        /\ tag_out.direction = "critical" <=>
              (HitsAny(CRITICISM_KEYWORDS, full_text) /\ ~ProSignal)
        /\ tag_out.direction = "pro" <=> ProSignal
        /\ tag_out.direction = "neutral" <=>
              (~HitsAny(CRITICISM_KEYWORDS, full_text) /\ ~ProSignal)
        /\ full_text = TextCrashing => tag_out.direction = "critical"

\* C16 witness: a text with a critical keyword and the switch-recommendation
\* label but no pro keyword is pro.
C16_Witness ==
    /\ Tagged
    /\ HitsAny(CRITICISM_KEYWORDS, full_text)
    /\ ~HitsAny(PRO_KEYWORDS, full_text)
    /\ "switch-recommendation" \in Range(tag_out.narratives)
    /\ tag_out.direction = "pro"

\* C17: for the text "I switched because it pays artists better" the labels
\* returned include switch-recommendation and royalties, and the direction
\* is pro.
C17_AsStated ==
    (Tagged /\ full_text = TextScenario4) =>
        /\ {"switch-recommendation", "royalties"} \subseteq Range(tag_out.narratives)
        /\ tag_out.direction = "pro"

\* what the text of scenario 4 gets: royalties alone, and neutral
C17_Scenario4Neutral ==
    /\ Tagged
    /\ full_text = TextScenario4
    /\ tag_out.narratives = <<"royalties">>
    /\ tag_out.direction = "neutral"

\* C18: a label is returned iff a keyword of its list occurs in the text,
\* letter case ignored; every label returned is of the vocabulary, none is
\* returned twice, and a text without a hit gets no label.
C18_LabelIffKeyword ==
    Tagged =>
        /\ \A k \in 1..Len(NARRATIVE_RULES) :
              NARRATIVE_RULES[k].narrative \in Range(tag_out.narratives)
                  <=> HitsAny(NARRATIVE_RULES[k].keywords, full_text)
        /\ Range(tag_out.narratives) \subseteq Vocabulary
        /\ Cardinality(Range(tag_out.narratives)) = Len(tag_out.narratives)
        /\ (\A k \in 1..Len(NARRATIVE_RULES) :
                ~HitsAny(NARRATIVE_RULES[k].keywords, full_text))
              => tag_out.narratives = <<>>

\* C18 witness: "ROYALTIES matter", in capitals, gets the label royalties.
C18_Witness ==
    /\ Tagged
    /\ full_text = TextRoyalties
    /\ tag_out.narratives = <<"royalties">>

\* the platforms in the priority order of the table
PlatformOrder == <<"spotify", "amazon", "apple", "youtube", "tidal", "deezer">>

\* the keyword list of the k-th platform
PlatformKeywords(k) ==
    (CHOOSE r \in Range(PLATFORM_FROM_RULES) : r.platform = PlatformOrder[k]).keywords

\* C19: detect_platform_from returns the first platform, in the order
\* spotify, amazon, apple, youtube, tidal, deezer, with a keyword hit,
\* wherever the keywords sit in the text, and generic when there is none.
C19_FirstPlatform ==
    Tagged =>
        /\ \A k \in 1..Len(PlatformOrder) :
              tag_out.platform_from = PlatformOrder[k] <=>
                  /\ HitsAny(PlatformKeywords(k), full_text)
                  /\ \A j \in 1..(k - 1) : ~HitsAny(PlatformKeywords(j), full_text)
        /\ tag_out.platform_from = "generic" <=>
              \A k \in 1..Len(PlatformOrder) : ~HitsAny(PlatformKeywords(k), full_text)

\* C19 witness: "leaving TIDAL quit spotify", where tidal comes first in the
\* text, gives spotify.
C19_Witness ==
    /\ Tagged
    /\ full_text = TextTidal \o <<" ">> \o TextSpotify
    /\ tag_out.platform_from = "spotify"



(***************************************************************************)
(* Properties of main                                                      *)
(***************************************************************************)
\* C2: every item is scored in exactly one run, the run that first ingests
\* it, and never again in a later run, runs that move items older than 30
\* days out of the working set included.  As an invariant: no id has been
\* scored in more than one run.
C2_AsStated == \A id \in FeedIds : Cardinality(scored_in[id]) <= 1

\* an item scored in one run, archived by it, and scored again by the next
C2_ScoredAgain ==
    \E id \in FeedIds :
        /\ Cardinality(scored_in[id]) = 2
        /\ \E m \in DOMAIN archive : id \in IdsOf(archive[m])


\* C20: an item whose timestamp is missing or does not parse is still
\* scored: it never gets odd_hour_post, its other signals and its score are
\* those of the same item with a parseable timestamp outside the odd hours,
\* and it is never flagged as, or counted in, a burst.
C20_UndatedItems ==
    \A k \in 1..Len(all_posts) :
        all_posts[k].date.kind # "ok" =>
            /\ "odd_hour_post" \notin Range(all_posts[k].bot_signals)
            /\ all_posts[k].campaign_burst = FALSE
            /\ pc = "save" =>
                  \A j \in 1..Len(burst_windows) : k \notin Range(burst_windows[j])
            /\ (pc = "score" /\ n_existing < k /\ k < next_new) =>
                  [score |-> all_posts[k].bot_score, signals |-> all_posts[k].bot_signals]
                      = score_account([all_posts[k] EXCEPT !.date = DateAt(14, 0)], all_posts)

\* C20 witness: an item with an unparseable timestamp and one without a
\* timestamp, both scored 0.4 or more and carrying the narrative of a burst
\* reported in the run, stay unflagged.
C20_Witness ==
    /\ pc = "save"
    /\ bursts # <<>>
    /\ \E k, m \in 1..Len(all_posts) :
          /\ all_posts[k].date = BadDate
          /\ all_posts[m].date = NoDate
          /\ all_posts[k].bot_score >= 400
          /\ all_posts[m].bot_score >= 400
          /\ bursts[1].narrative \in Range(all_posts[k].narratives)
          /\ bursts[1].narrative \in Range(all_posts[m].narratives)
          /\ ~all_posts[k].campaign_burst
          /\ ~all_posts[m].campaign_burst

\* C21, as the spec states it: a run whose load_existing met a structurally
\* invalid data/posts.json (one that cannot be parsed, or one that is no list
\* of records) has failed; it is at no later step of main.
C21_AsStated == loaded \in {"unparsable", "not_records"} => pc = "failed"

\* a run that met an unparsable data/posts.json went on with existing = [] and
\* wrote the posts and the metadata computed from what it collected alone
C21_EmptyCorpusSaved ==
    /\ loaded = "unparsable"
    /\ pc = "idle"
    /\ n_existing = 0
    /\ all_posts # <<>>
    /\ posts_form = "records"
    /\ posts_file # <<>>
    /\ metadata = build_metadata(all_posts, bursts)


(***************************************************************************)
(* Properties of detect_campaign_bursts that compare two calls             *)
(***************************************************************************)
\* the ids of the items that carry campaign_burst after a call
FlaggedIds(out) == {out.posts[k].id : k \in {j \in 1..Len(out.posts) : out.posts[j].campaign_burst}}

\* the bursts a call returned, as a set, each with the ids of its members;
\* start and end as the record holds them
BurstSet(out) ==
    {[narrative |-> out.bursts[j].narrative,
      start |-> out.bursts[j].start,
      end |-> out.bursts[j].end,
      count |-> out.bursts[j].count,
      members |-> {out.posts[k].id : k \in Range(out.windows[j])}] :
        j \in 1..Len(out.bursts)}

\* the same, start and end taken as instants
BurstSetByInstant(out) ==
    {[b EXCEPT !.start = b.start.t, !.end = b.end.t] : b \in BurstSet(out)}

\* the call on the same items listed by ascending id, the narratives visited
\* in one fixed order
Reference(corpus) ==
    LET q == ById(Range(corpus))
    IN  detect_campaign_bursts(q, CHOOSE o \in Orders(NarrativesOf(q)) : TRUE)

\* C22, as the spec states it: whatever the order of the corpus list and the
\* order in which the narratives are visited, the same items give the same set
\* of bursts (narrative, start, end, count, members) and the same flagged
\* items; every order of the list is compared with the list by ascending id.
C22_AsStated ==
    burst_done =>
        \E ref \in {Reference(burst_corpus)} :
            /\ BurstSet(burst_out) = BurstSet(ref)
            /\ FlaggedIds(burst_out) = FlaggedIds(ref)

\* C22, amended: the same holds with the start and the end of a burst taken as
\* instants; the text of start and end is that of the first item listed among
\* those of the earliest, resp. latest, instant.
C22_OrderIndependent ==
    burst_done =>
        \E ref \in {Reference(burst_corpus)} :
            /\ BurstSetByInstant(burst_out) = BurstSetByInstant(ref)
            /\ FlaggedIds(burst_out) = FlaggedIds(ref)

\* a call that reported bursts for two narratives from a corpus not listed by
\* ascending id, two members of a burst carrying the same instant
C22_Witness ==
    /\ burst_done
    /\ Cardinality({b.narrative : b \in BurstSet(burst_out)}) = 2
    /\ burst_corpus # ById(Range(burst_corpus))
    /\ \E j \in 1..Len(Bursts) : \E k, m \in Members(j) :
          /\ k < m
          /\ burst_corpus[k].id > burst_corpus[m].id
          /\ TimeOf(k) = TimeOf(m)


(***************************************************************************)
(* Properties of detect_campaign_bursts on one narrative                   *)
(***************************************************************************)
MinTime(S) == CHOOSE t \in {TimeOf(k) : k \in S} : \A k \in S : t <= TimeOf(k)

\* C23: when the candidates carrying a narrative are at least 3 and all lie
\* within 72 hours of the earliest of them, exactly one burst is reported for
\* the narrative, its window is made of all of them, its count is their number,
\* its span the distance from the earliest to the latest, and all of them are
\* flagged.
C23_OneBurstForAll ==
    burst_done =>
        \A n \in Labels :
            (/\ Cardinality(SameLabel(n)) >= 3
             /\ \A k \in SameLabel(n) : TimeOf(k) <= MinTime(SameLabel(n)) + 72)
            => /\ Cardinality(BurstsOf(n)) = 1
               /\ \A j \in BurstsOf(n) :
                     /\ Members(j) = SameLabel(n)
                     /\ Bursts[j].count = Cardinality(SameLabel(n))
                     /\ Bursts[j].start.t = MinTime(SameLabel(n))
                     /\ Bursts[j].hours_span = MaxTime(SameLabel(n)) - MinTime(SameLabel(n))
               /\ \A k \in SameLabel(n) : burst_out.posts[k].campaign_burst

\* the example: the four candidates at hours 0, 10, 40 and 70, listed in some
\* other order than by time, gave one burst of count 4 and span 70 for their
\* common narrative, and the four are flagged
C23_Witness ==
    /\ burst_done
    /\ {burst_corpus[k].id : k \in 1..Len(burst_corpus)} = {1, 2, 3, 4}
    /\ burst_corpus # ById(Range(burst_corpus))
    /\ \E j \in 1..Len(Bursts) :
          /\ BurstsOf("quality") = {j}
          /\ Bursts[j].count = 4
          /\ Bursts[j].hours_span = 70
    /\ \A k \in 1..4 : burst_out.posts[k].campaign_burst


(***************************************************************************)
(* Properties of detect_campaign_bursts called twice                       *)
(***************************************************************************)
\* C24: a second call of detect_campaign_bursts, made on the corpus the first
\* call left, returns the same set of burst records and leaves every item, its
\* campaign_burst flag included, as the first call left it.
C24_Idempotent ==
    burst_again # NotRun =>
        /\ Range(burst_again.bursts) = Range(burst_out.bursts)
        /\ Len(burst_again.bursts) = Len(burst_out.bursts)
        /\ burst_again.posts = burst_out.posts

\* a second call that reported two bursts, in the other order than the first
\* call, over a corpus that holds flagged and unflagged items
C24_Witness ==
    /\ Len(burst_again.bursts) = 2
    /\ burst_again.bursts # burst_out.bursts
    /\ \E k, m \in 1..Len(burst_again.posts) :
          /\ burst_again.posts[k].campaign_burst
          /\ ~burst_again.posts[m].campaign_burst


(***************************************************************************)
(* Properties of main, the burst and the scoring passes                    *)
(***************************************************************************)
\* C25, as the spec states it: once detect_campaign_bursts has returned in a
\* run, every item of the corpus that carries campaign_burst = true, the items
\* loaded from data/posts.json included, is a member of a burst reported by
\* that run.
C25_AsStated ==
    pc = "save" =>
        \A k \in 1..Len(all_posts) :
            all_posts[k].campaign_burst =>
                \E j \in 1..Len(burst_windows) : k \in Range(burst_windows[j])

\* a run that reported no burst at all while items loaded from
\* data/posts.json still carry the flag an earlier run gave them
C25_StaleFlag ==
    /\ pc = "save"
    /\ bursts = <<>>
    /\ \E k \in 1..n_existing : all_posts[k].campaign_burst


\* C26: a turn of the scoring loop calls score_account for one newly ingested
\* item, and writes the bot_score and bot_signals of that item only: the list
\* keeps its length, every other item keeps every field, the scored item keeps
\* every other field, and no item loaded from data/posts.json is scored.
C26_ScoringFrame ==
    [][(pc = "score" /\ pc' = "score") =>
          \E k \in (n_existing + 1)..Len(all_posts) :
              /\ all_posts' = [all_posts EXCEPT ![k].bot_score = all_posts'[k].bot_score,
                                                ![k].bot_signals = all_posts'[k].bot_signals]
              /\ scored_in' = [scored_in EXCEPT ![all_posts[k].id] = @ \cup {run}]
              /\ \A j \in 1..n_existing : all_posts[j].id # all_posts[k].id]_vars

\* the scoring loop of a run that loaded scored and flagged items, after it
\* scored two new items
C26_Witness ==
    /\ pc = "score"
    /\ next_new >= n_existing + 3
    /\ \E j, m \in 1..n_existing :
          /\ all_posts[j].bot_score >= 400
          /\ all_posts[j].campaign_burst
          /\ all_posts[m].bot_signals # <<>>
    /\ \E k \in (n_existing + 1)..(next_new - 1) : all_posts[k].bot_score > 0


\* all_posts with the new items as they were before the scoring loop began
Unscored(q, first) ==
    [k \in 1..Len(q) |->
        IF k >= first THEN [q[k] EXCEPT !.bot_score = 0, !.bot_signals = <<>>] ELSE q[k]]

\* C27: the score and the signals a new item got in the scoring loop are those
\* score_account gives it against the corpus as it stood before the loop wrote
\* anything, listed in any order (here by ascending id): they depend neither
\* on the order in which the new items are scored nor on the scores written
\* meanwhile; and detect_campaign_bursts has run only once every new item of
\* the run is scored.
C27_ScoringOrder ==
    /\ pc \in {"score", "save"} =>
          \A k \in (n_existing + 1)..(next_new - 1) :
              \E fresh \in {Unscored(all_posts, n_existing + 1)} :
                  score_account(fresh[k], ById(Range(fresh)))
                      = [score |-> all_posts[k].bot_score,
                         signals |-> all_posts[k].bot_signals]
    /\ pc = "save" =>
          /\ next_new = Len(all_posts) + 1
          /\ \A k \in (n_existing + 1)..Len(all_posts) : run \in scored_in[all_posts[k].id]

\* the loop scored three near-duplicate new items, listed in another order
\* than by id, the later ones against a list that held the scores of the
\* earlier ones; the bursts were detected afterwards
C27_Witness ==
    /\ pc = "save"
    /\ bursts # <<>>
    /\ Len(all_posts) >= n_existing + 3
    /\ \E k, m \in (n_existing + 1)..Len(all_posts) :
          /\ k < m
          /\ all_posts[k].id > all_posts[m].id
          /\ all_posts[k].bot_score > 0
          /\ "copy_paste_campaign" \in Range(all_posts[m].bot_signals)


(***************************************************************************)
(* Properties of score_account over the pairs of items of a corpus         *)
(***************************************************************************)
\* all_posts without the item b
Without(corpus, b) ==
    LET keep(p) == p.id # b.id
    IN  SelectSeq(corpus, keep)

\* b is counted among the similar items of a when a is scored against corpus
CountedFor(a, b, corpus) ==
    /\ SimilarityEvaluated(a)
    /\ similar_count(a, corpus) = similar_count(a, Without(corpus, b)) + 1

\* C28, as the spec states it: whenever an item B of the corpus is counted
\* among the similar items of the scored item A, A is counted among the
\* similar items of B when B is scored against the same corpus.
C28_AsStated ==
    Called =>
        \A k \in 1..Len(score_corpus) :
            (/\ score_corpus[k].id # scored_post.id
             /\ CountedFor(scored_post, score_corpus[k], score_corpus))
            => CountedFor(score_corpus[k], scored_post, score_corpus)

\* C28, amended: when B is counted among the similar items of A, A is counted
\* among those of B exactly when the combined text of B is longer than 50
\* characters and the ratio taken with the text of B as first sequence also
\* exceeds 0.75.
C28_ReciprocalWhen ==
    Called =>
        \A k \in 1..Len(score_corpus) :
            (/\ score_corpus[k].id # scored_post.id
             /\ CountedFor(scored_post, score_corpus[k], score_corpus))
            => (CountedFor(score_corpus[k], scored_post, score_corpus)
                <=> LET b == Prefix(CombinedText(score_corpus[k]), 300)
                        a == Prefix(CombinedText(scored_post), 300)
                    IN  /\ Len(CombinedText(score_corpus[k])) > 50
                        /\ 8 * MatchCount(b, a) > 3 * (Len(a) + Len(b)))

\* the scored item counts two items of its corpus, one that counts it in
\* return and one that is too short to have its own similar items counted
C28_Witness ==
    /\ Called
    /\ Has("similar_to_other_posts")
    /\ \E k, m \in 1..Len(score_corpus) :
          /\ CountedFor(scored_post, score_corpus[k], score_corpus)
          /\ CountedFor(score_corpus[k], scored_post, score_corpus)
          /\ CountedFor(scored_post, score_corpus[m], score_corpus)
          /\ ~CountedFor(score_corpus[m], scored_post, score_corpus)

\* the ratio is not symmetric: the scored item counts an item whose text is
\* longer than 50 characters and which does not count it in return
C28_OneWayRatio ==
    /\ Called
    /\ \E k \in 1..Len(score_corpus) :
          /\ CountedFor(scored_post, score_corpus[k], score_corpus)
          /\ SimilarityEvaluated(score_corpus[k])
          /\ ~CountedFor(score_corpus[k], scored_post, score_corpus)


\* C29: at every point of a run the corpus (the items loaded, then the items
\* loaded plus the items the collectors returned) holds no id twice; the same
\* holds for what is written to data/posts.json.
C29_UniqueIds ==
    /\ \A i, j \in 1..Len(all_posts) : i # j => all_posts[i].id # all_posts[j].id
    /\ \A i, j \in 1..Len(posts_file) : i # j => posts_file[i].id # posts_file[j].id

\* the merged corpus of a later run: items loaded from data/posts.json, and
\* new items from two collectors, one of them an item an earlier run had
\* collected and archived
C29_Witness ==
    /\ pc = "score"
    /\ next_new = n_existing + 1
    /\ n_existing >= 2
    /\ \E k, m \in (n_existing + 1)..Len(all_posts) :
          /\ all_posts[k].source # all_posts[m].source
          /\ scored_in[all_posts[k].id] # {}


(***************************************************************************)
(* Properties of score_account for the sources without account metadata    *)
(***************************************************************************)
\* C30: an item whose source is news or hackernews scores 0.4 or more, the
\* threshold of a burst candidate, only with copy_paste_campaign among its
\* signals, hence only when at least 3 other items of the corpus are its near
\* duplicates; without that signal its score is at most 0.15 + 0.08 + 0.10.
C30_NeedsCopyPaste ==
    (Called /\ scored_post.source \in {"news", "hackernews"}) =>
        /\ score_result.score >= BOT_THRESHOLD =>
              /\ Has("copy_paste_campaign")
              /\ Cardinality(NearDuplicates) >= 3
        /\ ~Has("copy_paste_campaign") => score_result.score <= 150 + 80 + 100

\* a news item with three near duplicates in the corpus reaches the threshold
C30_Witness ==
    /\ Called
    /\ scored_post.source = "news"
    /\ score_result.score >= BOT_THRESHOLD
    /\ Has("copy_paste_campaign")
    /\ Cardinality(NearDuplicates) = 3


====
